---------------------------- MODULE Spec2Model ----------------------------
(***************************************************************************)
(* A model of the watermark localisation and removal core of QuitaMarcas   *)
(* (src/WatermarkRemove/wm_remove.py).                                     *)
(*                                                                         *)
(* Images are grids of 8-bit BGR pixels, watermarks grids of 8-bit BGRA    *)
(* pixels.  A pixel is a sequence <<b, g, r>> or <<b, g, r, a>>; a grid is *)
(* a record [h, w, px] with px[<<row, column>>], rows and columns from 0.  *)
(*                                                                         *)
(* numpy's float32 values are modelled as exact rationals <<n, d>> in      *)
(* lowest terms with d > 0, extended with the IEEE specials NaN = <<0,0>>, *)
(* +inf = <<1,0>> and -inf = <<-1,0>>.  The rounding error of the float    *)
(* operations themselves is not modelled.                                  *)
(***************************************************************************)
EXTENDS Integers, Sequences, FiniteSets, TLC

(***************************************************************************)
(* Bounds of the model.                                                    *)
(***************************************************************************)
ImgW == 3
ImgH == 2
WmW == 2
WmH == 2

(***************************************************************************)
(* Integer helpers.                                                        *)
(***************************************************************************)
Min(a, b) == IF a <= b THEN a ELSE b
Max(a, b) == IF a >= b THEN a ELSE b
Abs(a) == IF a < 0 THEN -a ELSE a

RECURSIVE Gcd(_, _)
Gcd(a, b) == IF b = 0 THEN a ELSE Gcd(b, a % b)

\* n / d (d > 0) rounded to the nearest integer, ties to even: cvRound,
\* the rounding of OpenCV's saturate_cast from float.
RoundHalfEven(n, d) ==
    LET q == n \div d
        r == n % d
    IN  IF 2 * r < d THEN q
        ELSE IF 2 * r > d THEN q + 1
        ELSE IF q % 2 = 0 THEN q ELSE q + 1

(***************************************************************************)
(* Extended rationals: the float values of the unblending loop.            *)
(***************************************************************************)
NaN == <<0, 0>>
IsNaN(v) == v[2] = 0 /\ v[1] = 0
IsInf(v) == v[2] = 0 /\ v[1] # 0
IsFinite(v) == v[2] # 0
Sign(n) == IF n > 0 THEN 1 ELSE IF n < 0 THEN -1 ELSE 0

Rat(n, d) ==
    LET g == Gcd(Abs(n), Abs(d))
        s == IF d < 0 THEN -1 ELSE 1
    IN  <<(s * n) \div g, (s * d) \div g>>

FromInt(n) == <<n, 1>>

RMul(a, b) ==
    IF IsNaN(a) \/ IsNaN(b) THEN NaN
    ELSE IF IsInf(a) \/ IsInf(b)
         THEN IF a[1] = 0 \/ b[1] = 0 THEN NaN
              ELSE <<Sign(a[1]) * Sign(b[1]), 0>>
    ELSE LET g1 == Gcd(Abs(a[1]), b[2])
             g2 == Gcd(Abs(b[1]), a[2])
         IN  <<(a[1] \div g1) * (b[1] \div g2), (a[2] \div g2) * (b[2] \div g1)>>

RAdd(a, b) ==
    IF IsNaN(a) \/ IsNaN(b) THEN NaN
    ELSE IF IsInf(a) /\ IsInf(b) THEN (IF a[1] = b[1] THEN a ELSE NaN)
    ELSE IF IsInf(a) THEN a
    ELSE IF IsInf(b) THEN b
    ELSE LET g == Gcd(a[2], b[2])
         IN  Rat(a[1] * (b[2] \div g) + b[1] * (a[2] \div g), (a[2] \div g) * b[2])

RNeg(a) == <<-a[1], a[2]>>
RSub(a, b) == RAdd(a, RNeg(b))

\* numpy scalar division: x / 0 is +-inf (0 / 0 is NaN) with a RuntimeWarning,
\* never an exception.
RDiv(a, b) ==
    IF IsNaN(a) \/ IsNaN(b) THEN NaN
    ELSE IF IsInf(a) THEN (IF IsInf(b) THEN NaN
                           ELSE <<Sign(a[1]) * (IF b[1] < 0 THEN -1 ELSE 1), 0>>)
    ELSE IF IsInf(b) THEN <<0, 1>>
    ELSE IF b[1] = 0 THEN (IF a[1] = 0 THEN NaN ELSE <<Sign(a[1]), 0>>)
    ELSE Rat(a[1] * b[2], a[2] * b[1])

\* a > b on extended rationals; every comparison with NaN is false.
RGt(a, b) ==
    IF IsNaN(a) \/ IsNaN(b) THEN FALSE
    ELSE IF IsInf(a) THEN a[1] > 0 /\ a # b
    ELSE IF IsInf(b) THEN b[1] < 0
    ELSE a[1] * b[2] > b[1] * a[2]

\* np.clip(v, 0, 255): NaN stays NaN.
Clip(v) ==
    IF IsNaN(v) THEN NaN
    ELSE IF RGt(<<0, 1>>, v) THEN <<0, 1>>
    ELSE IF RGt(v, <<255, 1>>) THEN <<255, 1>>
    ELSE v

(***************************************************************************)
(* Grids.                                                                  *)
(***************************************************************************)
Cells(h, w) == (0 .. h - 1) \X (0 .. w - 1)
\* TLC evaluates a function constructor lazily, once per application; f @@ <<>>
\* is the same function, evaluated once.
Eager(f) == f @@ <<>>
Px3(F(_)) == <<F(1), F(2), F(3)>>
Px4(F(_)) == <<F(1), F(2), F(3), F(4)>>
CellFn(h, w, F(_)) == Eager([c \in Cells(h, w) |-> F(c)])
Grid(h, w, f(_, _)) == [h |-> h, w |-> w, px |-> CellFn(h, w, LAMBDA c : f(c[1], c[2]))]


(***************************************************************************)
(* remove_watermark (wm_remove.py 265-379).                                *)
(*                                                                         *)
(* A position is given in half pixels: x2 stands for x = x2 / 2, so that   *)
(* the sub-pixel part x % 1 is 0 or 1/2.  alpha_adjust is a rational.      *)
(***************************************************************************)
transparency_threshold == 6
opaque_threshold == 240

\* int(np.floor(x)) and x % 1 (the latter in halves), for negative x too.
FloorPos(x2) == x2 \div 2
SubPos(x2) == x2 % 2

\* A float64 position <<n, e>> is n / 2 when e = 0; <<0, 1>> and <<0, -1>> are
\* the floats t and -t for some 0 < t < 2^-54 (1e-17 is one).  A fraction is
\* written the same way, n in halves.
IsHalves(p) == p[2] = 0

\* int(np.floor(x)).
FloorFloat(p) == IF p[2] < 0 THEN FloorPos(p[1] - 1) ELSE FloorPos(p[1])

\* x % 1 on floats: fmod(x, 1), plus 1.0 when the remainder is negative, the sum
\* rounded to the nearest float64.  The fraction 1 - t of -t lies within half
\* a unit in the last place of 1.0, so the remainder is 1.0.
ModOne(p) ==
    IF IsHalves(p) THEN <<SubPos(p[1]), 0>>
    ELSE IF p[2] > 0 THEN p
    ELSE <<SubPos(p[1]) + 2, 0>>

\* Channel k of the watermark at (row, col), 0 outside it (BORDER_CONSTANT, 0).
WmAt(watermark, row, col, k) ==
    IF row >= 0 /\ row < watermark.h /\ col >= 0 /\ col < watermark.w
    THEN watermark.px[<<row, col>>][k]
    ELSE 0

\* cv2.warpAffine(watermark, [[1,0,x_sub],[0,1,y_sub]], INTER_LINEAR): the
\* destination pixel (row, col) samples the source at (row - y_sub, col - x_sub)
\* bilinearly; with offsets of 0 or 1/2 the four weights are quarters, and the
\* fixed-point sum is rounded half up.
WarpAffine(watermark, xs, ys) ==
    Grid(watermark.h, watermark.w,
         LAMBDA row, col :
            Px4(LAMBDA k :
                ( (2 - xs) * (2 - ys) * WmAt(watermark, row, col, k)
                + xs * (2 - ys) * WmAt(watermark, row, col - 1, k)
                + (2 - xs) * ys * WmAt(watermark, row - 1, col, k)
                + xs * ys * WmAt(watermark, row - 1, col - 1, k)
                + 2 ) \div 4))

\* Lines 303-312: the watermark is resampled only for a non-zero fraction.
WmTranslated(watermark, x2, y2) ==
    IF SubPos(x2) # 0 \/ SubPos(y2) # 0
    THEN WarpAffine(watermark, SubPos(x2), SubPos(y2))
    ELSE watermark

\* The crop of the watermark taken from its origin whatever the position.
Overlap_CropFromOrigin(image, watermark, x2, y2) ==
    LET x_start_img == Max(0, FloorPos(x2))
        y_start_img == Max(0, FloorPos(y2))
        x_end_img == Min(image.w, FloorPos(x2) + watermark.w)
        y_end_img == Min(image.h, FloorPos(y2) + watermark.h)
    IN  [x_start_img |-> x_start_img, y_start_img |-> y_start_img,
         x_end_img |-> x_end_img, y_end_img |-> y_end_img,
         x_start_wm |-> 0, y_start_wm |-> 0,
         x_end_wm |-> x_end_img - x_start_img,
         y_end_wm |-> y_end_img - y_start_img]

\* Lines 314-323: the overlap of the watermark's box with the image.
Overlap(image, watermark, x2, y2) ==
    LET x_start_img == Max(0, FloorPos(x2))
        y_start_img == Max(0, FloorPos(y2))
        x_end_img == Min(image.w, FloorPos(x2) + watermark.w)
        y_end_img == Min(image.h, FloorPos(y2) + watermark.h)
        x_start_wm == Max(0, -FloorPos(x2))
        y_start_wm == Max(0, -FloorPos(y2))
    IN  [x_start_img |-> x_start_img, y_start_img |-> y_start_img,
         x_end_img |-> x_end_img, y_end_img |-> y_end_img,
         x_start_wm |-> x_start_wm, y_start_wm |-> y_start_wm,
         x_end_wm |-> x_start_wm + (x_end_img - x_start_img),
         y_end_wm |-> y_start_wm + (y_end_img - y_start_img)]

\* Line 325.
NoOverlap(o) == o.x_start_img >= o.x_end_img \/ o.y_start_img >= o.y_end_img

InRoi(o, row, col) ==
    /\ o.y_start_img <= row /\ row < o.y_end_img
    /\ o.x_start_img <= col /\ col < o.x_end_img

\* Lines 336-337: alpha[i, j] of the cropped watermark, adjusted and clipped.
AdjustedAlpha(wm_translated, o, alpha_adjust, i, j) ==
    Clip(RMul(FromInt(wm_translated.px[<<o.y_start_wm + i, o.x_start_wm + j>>][4]),
              alpha_adjust))

\* Unblend with the overlay term added instead of subtracted.
Unblend_PlusOverlay(alpha_val, c, w) ==
    LET alpha_img == RDiv(FromInt(255), RSub(FromInt(255), alpha_val))
        alpha_wm == RDiv(alpha_val, RSub(FromInt(255), alpha_val))
    IN  RAdd(RMul(alpha_img, c), RMul(alpha_wm, w))

\* Lines 349-355: the unblended value of one channel.
Unblend(alpha_val, c, w) ==
    LET alpha_img == RDiv(FromInt(255), RSub(FromInt(255), alpha_val))
        alpha_wm == RDiv(RNeg(alpha_val), RSub(FromInt(255), alpha_val))
    IN  RAdd(RMul(alpha_img, c), RMul(alpha_wm, w))

\* The factor taken over the whole alpha range instead of the range above
\* opaque_threshold.
SmoothFactor_OverWholeRange(alpha_val) ==
    RDiv(RSub(alpha_val, FromInt(opaque_threshold)), FromInt(255))

\* Line 359.
SmoothFactor(alpha_val) ==
    RDiv(RSub(alpha_val, FromInt(opaque_threshold)), FromInt(255 - opaque_threshold))

\* The smoothing gated by transparency_threshold instead of opaque_threshold.
NeedsSmoothing_WrongThreshold(alpha_val, j) ==
    RGt(alpha_val, FromInt(transparency_threshold)) /\ j > 0

\* Line 358: which pixels get the smoothing with the left neighbour.
NeedsSmoothing(alpha_val, j) ==
    RGt(alpha_val, FromInt(opaque_threshold)) /\ j > 0

\* Line 347.
AboveThreshold(alpha_val) == RGt(alpha_val, FromInt(transparency_threshold))

\* Lines 342-361 for row i of the region: p[j] is roi[i, j] after the loop
\* has passed column j (three float channels).
ProcessRow(image, wm_translated, o, alpha_adjust, i) ==
    LET p[j \in 0 .. (o.x_end_img - o.x_start_img) - 1] ==
          LET alpha_val == AdjustedAlpha(wm_translated, o, alpha_adjust, i, j)
              roi == image.px[<<o.y_start_img + i, o.x_start_img + j>>]
              wmc == wm_translated.px[<<o.y_start_wm + i, o.x_start_wm + j>>]
              new_val == Px3(LAMBDA c :
                            Unblend(alpha_val, FromInt(roi[c]), FromInt(wmc[c])))
          IN  IF ~AboveThreshold(alpha_val)
              THEN Px3(LAMBDA c : FromInt(roi[c]))
              ELSE IF NeedsSmoothing(alpha_val, j)
              THEN LET factor == SmoothFactor(alpha_val)
                       left == p[j - 1]
                   IN  Px3(LAMBDA c :
                          RAdd(RMul(factor, left[c]),
                               RMul(RSub(FromInt(1), factor), new_val[c])))
              ELSE new_val
    IN  Eager(p)

\* astype(np.uint8) of a clipped float: truncation.  The conversion of NaN is
\* undefined; nan_cast is the byte the build produces for it.
CastU8(v, nan_cast) == IF IsNaN(v) THEN nan_cast ELSE v[1] \div v[2]

\* Lines 329-361 for the overlap o: roi as float32 when the loop ends,
\* roi[i][j][c].
FloatRoiAt(image, wm_translated, o, alpha_adjust) ==
    Eager([i \in 0 .. (o.y_end_img - o.y_start_img) - 1 |->
             ProcessRow(image, wm_translated, o, alpha_adjust, i)])

FloatRoi(image, watermark, x2, y2, alpha_adjust) ==
    FloatRoiAt(image, WmTranslated(watermark, x2, y2),
               Overlap(image, watermark, x2, y2), alpha_adjust)

\* Lines 364-365 followed by astype(np.uint8), for the overlap o: the unblended
\* image.
UnblendedAt(image, wm_translated, o, alpha_adjust, nan_cast) ==
    LET rows == FloatRoiAt(image, wm_translated, o, alpha_adjust)
    IN  Grid(image.h, image.w,
             LAMBDA row, col :
                IF InRoi(o, row, col)
                THEN Px3(LAMBDA c :
                        CastU8(Clip(rows[row - o.y_start_img][col - o.x_start_img][c]),
                               nan_cast))
                ELSE image.px[<<row, col>>])

Unblended(image, watermark, x2, y2, alpha_adjust, nan_cast) ==
    UnblendedAt(image, WmTranslated(watermark, x2, y2),
                Overlap(image, watermark, x2, y2), alpha_adjust, nan_cast)

(***************************************************************************)
(* OpenCV operations used by the disguise filter, on 8-bit pixels.         *)
(***************************************************************************)
\* cv2.cvtColor(COLOR_BGR2HSV) on uint8: H in 0..179, S and V in 0..255,
\* computed with the 12-bit division tables of OpenCV's RGB2HSV_b.
BGR2HSV(p) ==
    LET b == p[1]
        g == p[2]
        r == p[3]
        v == Max(b, Max(g, r))
        vmin == Min(b, Min(g, r))
        diff == v - vmin
        sdiv == IF v = 0 THEN 0 ELSE RoundHalfEven(255 * 4096, v)
        hdiv == IF diff = 0 THEN 0 ELSE RoundHalfEven(180 * 4096, 6 * diff)
        s == (diff * sdiv + 2048) \div 4096
        h0 == IF v = r THEN g - b
              ELSE IF v = g THEN b - r + 2 * diff
              ELSE r - g + 4 * diff
        h1 == (h0 * hdiv + 2048) \div 4096
    IN  <<IF h1 < 0 THEN h1 + 180 ELSE h1, s, v>>

\* cv2.cvtColor(COLOR_HSV2BGR) on uint8 (HSV2RGB_b): the float formula on
\* h / 30, s / 255, v / 255, each channel then scaled by 255 and rounded.
HSV2BGR(p) ==
    LET h == p[1]
        s == p[2]
        v == p[3]
        sector == (h \div 30) % 6
        f == h % 30
        tab == <<v,
                 RoundHalfEven(v * (255 - s), 255),
                 RoundHalfEven(v * (7650 - s * f), 7650),
                 RoundHalfEven(v * (7650 - s * (30 - f)), 7650)>>
        sector_data == <<<<1, 3, 0>>, <<1, 0, 2>>, <<3, 0, 1>>,
                         <<0, 2, 1>>, <<0, 1, 3>>, <<2, 1, 0>>>>
    IN  IF s = 0 THEN <<v, v, v>>
        ELSE Px3(LAMBDA k : tab[sector_data[sector + 1][k] + 1])

\* cv2.cvtColor(COLOR_BGR2GRAY) on uint8 (14-bit fixed point).
BGR2GRAY(p) == (p[1] * 1868 + p[2] * 9617 + p[3] * 4899 + 8192) \div 16384

\* cv2.getGaussianKernel(ksize, sigma), in thousandths, for the kernels the
\* filter uses: (3, 1), (5, 2) and (7, 3).
GaussianKernel(ksize) ==
    IF ksize = 3 THEN <<274, 452, 274>>
    ELSE IF ksize = 5 THEN <<152, 222, 252, 222, 152>>
    ELSE <<106, 140, 166, 176, 166, 140, 106>>

\* BORDER_REFLECT_101, OpenCV's default border, for an axis of n samples.
Reflect101(idx, n) ==
    IF n = 1 THEN 0
    ELSE LET m == idx % (2 * (n - 1))
         IN  IF m >= n THEN 2 * (n - 1) - m ELSE m

\* One pass of the separable blur along a row (horizontal) or a column, on
\* sums scaled by a power of 1000.
BlurPass(px, h, w, ksize, horizontal) ==
    LET K == GaussianKernel(ksize)
        rad == ksize \div 2
        Tap(c, n) == IF horizontal
                     THEN <<c[1], Reflect101(c[2] + n - 1 - rad, w)>>
                     ELSE <<Reflect101(c[1] + n - 1 - rad, h), c[2]>>
    IN  CellFn(h, w, LAMBDA c :
           Px3(LAMBDA k :
              LET t[n \in 0 .. ksize] ==
                    IF n = 0 THEN 0 ELSE t[n - 1] + K[n] * px[Tap(c, n)][k]
              IN  t[ksize]))

\* cv2.GaussianBlur(patch, (ksize, ksize), sigma) on an h x w patch of
\* three-channel pixels: the separable weighted sums, in millionths.
GaussianSum(px, h, w, ksize) ==
    BlurPass(BlurPass(px, h, w, ksize, TRUE), h, w, ksize, FALSE)

\* GaussianBlur of a float32 patch followed by astype(np.uint8): truncated.
GaussianBlurTrunc(px, h, w, ksize) ==
    LET g == GaussianSum(px, h, w, ksize)
    IN  CellFn(h, w, LAMBDA c : Px3(LAMBDA k : g[c][k] \div 1000000))

\* GaussianBlur of a uint8 patch: rounded.
GaussianBlurU8(px, h, w, ksize) ==
    LET g == GaussianSum(px, h, w, ksize)
    IN  CellFn(h, w, LAMBDA c : Px3(LAMBDA k : (g[c][k] + 500000) \div 1000000))

\* Lines 411-413 and 485-487: the kernel size of a blur of the given strength.
KSize(strength) ==
    LET ksize == Max(3, strength * 2 + 1)
    IN  IF ksize % 2 = 0 THEN ksize + 1 ELSE ksize

(***************************************************************************)
(* surface_blur (wm_remove.py 452-494) on an h x w uint8 patch; mask[c] is *)
(* TRUE where the watermark was visible.                                   *)
(***************************************************************************)
EdgeGray(px, h, w) ==
    LET blur1 == GaussianBlurU8(px, h, w, 3)
        blur2 == GaussianBlurU8(px, h, w, 7)
    IN  CellFn(h, w, LAMBDA c :
           BGR2GRAY(Px3(LAMBDA k : Abs(blur1[c][k] - blur2[c][k]))))

surface_blur(px, h, w, threshold, strength, mask) ==
    LET edge_gray == EdgeGray(px, h, w)
        blurred == GaussianBlurU8(px, h, w, KSize(strength))
    IN  CellFn(h, w, LAMBDA c :
           IF edge_gray[c] <= threshold /\ mask[c] THEN blurred[c] ELSE px[c])

(***************************************************************************)
(* apply_jpeg_noise_filter (wm_remove.py 382-449): image is the unblended  *)
(* uint8 image, o the overlap whose region is filtered and alpha[<<i, j>>] *)
(* the adjusted alpha of the region.                                       *)
(***************************************************************************)
\* Lines 405-435: the patch after the "colour" blend.
ResultWithColor(roi, h, w, strength, watermark_mask) ==
    LET blurred == GaussianBlurTrunc(roi, h, w, KSize(strength))
        blur_canvas == CellFn(h, w, LAMBDA c :
                          IF watermark_mask[c] THEN blurred[c] ELSE roi[c])
    IN  CellFn(h, w, LAMBDA c :
           LET roi_hsv == BGR2HSV(roi[c])
               blur_hsv == BGR2HSV(blur_canvas[c])
           IN  HSV2BGR(<<blur_hsv[1], blur_hsv[2], roi_hsv[3]>>))

\* The filter with the colour conversion written back over the whole image
\* instead of the region.
apply_jpeg_noise_filter_WholeImage(image, alpha, o, strength, edge_threshold) ==
    LET h == o.y_end_img - o.y_start_img
        w == o.x_end_img - o.x_start_img
        roi == CellFn(h, w, LAMBDA c :
                  image.px[<<o.y_start_img + c[1], o.x_start_img + c[2]>>])
        watermark_mask == CellFn(h, w, LAMBDA c : AboveThreshold(alpha[c]))
        out == ResultWithColor(roi, h, w, strength, watermark_mask)
    IN  Grid(image.h, image.w,
             LAMBDA row, col :
                IF InRoi(o, row, col)
                THEN out[<<row - o.y_start_img, col - o.x_start_img>>]
                ELSE HSV2BGR(BGR2HSV(image.px[<<row, col>>])))

apply_jpeg_noise_filter(image, alpha, o, strength, edge_threshold) ==
    LET h == o.y_end_img - o.y_start_img
        w == o.x_end_img - o.x_start_img
        roi == CellFn(h, w, LAMBDA c :
                  image.px[<<o.y_start_img + c[1], o.x_start_img + c[2]>>])
        watermark_mask == CellFn(h, w, LAMBDA c : AboveThreshold(alpha[c]))
        result_with_color == ResultWithColor(roi, h, w, strength, watermark_mask)
        out == IF edge_threshold > 0
               THEN surface_blur(result_with_color, h, w, edge_threshold,
                                 strength, watermark_mask)
               ELSE result_with_color
    IN  Grid(image.h, image.w,
             LAMBDA row, col :
                IF InRoi(o, row, col)
                THEN out[<<row - o.y_start_img, col - o.x_start_img>>]
                ELSE image.px[<<row, col>>])

\* What a raised exception leaves in place of the returned image.
Raised == [h |-> -1, w |-> -1, px |-> <<>>]

\* remove_watermark without the early return of line 325: a negative slice
\* end (a watermark entirely left of or above the image) wraps around and the
\* loop indexes an empty alpha array; an empty region reaches cv2.GaussianBlur.
remove_watermark_NoGuard(image, watermark, x2, y2, alpha_adjust, apply_jpeg_filter, strength, edge_threshold, nan_cast) ==
    LET o == Overlap(image, watermark, x2, y2)
        wm_translated == WmTranslated(watermark, x2, y2)
        result == Unblended(image, watermark, x2, y2, alpha_adjust, nan_cast)
        alpha == CellFn(o.y_end_img - o.y_start_img, o.x_end_img - o.x_start_img,
                        LAMBDA c : AdjustedAlpha(wm_translated, o, alpha_adjust, c[1], c[2]))
    IN  IF NoOverlap(o)
        THEN (IF o.x_end_img < 0 \/ o.y_end_img < 0 \/ apply_jpeg_filter
              THEN Raised ELSE image)
        ELSE IF apply_jpeg_filter
        THEN apply_jpeg_noise_filter(result, alpha, o, strength, edge_threshold)
        ELSE result

\* remove_watermark as a whole.
remove_watermark(image, watermark, x2, y2, alpha_adjust, apply_jpeg_filter, strength, edge_threshold, nan_cast) ==
    LET o == Overlap(image, watermark, x2, y2)
        wm_translated == WmTranslated(watermark, x2, y2)
        result == Unblended(image, watermark, x2, y2, alpha_adjust, nan_cast)
        alpha == CellFn(o.y_end_img - o.y_start_img, o.x_end_img - o.x_start_img,
                        LAMBDA c : AdjustedAlpha(wm_translated, o, alpha_adjust, c[1], c[2]))
    IN  IF NoOverlap(o) THEN image
        ELSE IF apply_jpeg_filter
        THEN apply_jpeg_noise_filter(result, alpha, o, strength, edge_threshold)
        ELSE result

\* remove_watermark storing into the caller's image instead.
WrittenBuffer_InPlace == "image"

\* The array the stores of lines 355, 361 and 365 go to: result, which line 329
\* made as image.copy().astype(np.float32) ("new"); roi is a view of it.
WrittenBuffer == "new"

\* The array remove_watermark returns: the input itself at line 326, otherwise
\* the array of result.astype(np.uint8) (line 379) or the image.copy() of
\* apply_jpeg_noise_filter (line 403).
ReturnedBuffer(image, watermark, x2, y2) ==
    IF NoOverlap(Overlap(image, watermark, x2, y2)) THEN "image" ELSE WrittenBuffer

\* What the caller's image array holds after the call: the stores reach it only
\* if they go to the caller's array.  As float32 values truncated to the
\* array's uint8.
ImageAfter(image, watermark, x2, y2, alpha_adjust, nan_cast) ==
    IF NoOverlap(Overlap(image, watermark, x2, y2)) \/ WrittenBuffer # "image"
    THEN image
    ELSE Unblended(image, watermark, x2, y2, alpha_adjust, nan_cast)

\* remove_watermark without the filter on arrays of any channel count, as
\* [raised, image]: raised is "" when an image is returned, otherwise the name
\* of the exception.  Nothing reads the channel counts before the early return
\* of line 326; line 336 indexes channel 3 of the watermark; the loops of lines
\* 353-361 touch channels 0..2 of the image and leave a fourth one as it is.
remove_watermark_channels(image, image_channels, watermark, watermark_channels, x2, y2, alpha_adjust, nan_cast) ==
    IF NoOverlap(Overlap(image, watermark, x2, y2))
    THEN [raised |-> "", image |-> image]
    ELSE IF watermark_channels < 4
    THEN [raised |-> "IndexError", image |-> [h |-> 0, w |-> 0, px |-> <<>>]]
    ELSE [raised |-> "",
          image |-> Unblended(image, watermark, x2, y2, alpha_adjust, nan_cast)]

(***************************************************************************)
(* find_wm (wm_remove.py 163-255) and find_wm_gpu (94-160).                *)
(* An optional argument is <<>> for None and <<v>> for the value v.         *)
(***************************************************************************)
None == <<>>

\* Lines 203-204 and 119-120: the centre of the search.
Centro(center, size) == IF center # None THEN center[1] ELSE size \div 2

\* Lines 216-225: the parts of the watermark and of the image that face each
\* other when the watermark sits at (cx, cy).
CandidateRegion(image, watermark, cx, cy) ==
    [wm_y_start |-> Max(0, -cy), wm_x_start |-> Max(0, -cx),
     wm_y_end |-> Min(watermark.h, image.h - cy),
     wm_x_end |-> Min(watermark.w, image.w - cx),
     img_y_start |-> Max(0, cy), img_x_start |-> Max(0, cx),
     img_y_end |-> Min(image.h, cy + watermark.h),
     img_x_end |-> Min(image.w, cx + watermark.w)]

\* Lines 228-231.
HasValidOverlap(g) ==
    /\ ~(g.wm_y_end <= g.wm_y_start \/ g.wm_x_end <= g.wm_x_start)
    /\ ~(g.img_y_end <= g.img_y_start \/ g.img_x_end <= g.img_x_start)

\* The cells (i, j) of the overlapping region.
RegionCells(g) == Cells(g.wm_y_end - g.wm_y_start, g.wm_x_end - g.wm_x_start)

\* Line 238: wm_alpha / 255.0 > 0.1.
Visible(alpha) == 10 * alpha > 255

\* Lines 238-239: the visible cells of the region.
VisibleCells(watermark, g) ==
    {c \in RegionCells(g) :
        Visible(watermark.px[<<g.wm_y_start + c[1], g.wm_x_start + c[2]>>][4])}

\* Line 242: the candidate goes on to be scored (0.3 * visible_mask.size).
EnoughVisible(num_visible_pixels, size) == ~(10 * num_visible_pixels < 3 * size)

\* The sum of the values v of a set of pairs <<cell, v>>.
RECURSIVE SumPairs(_)
SumPairs(S) ==
    IF S = {} THEN 0
    ELSE LET e == CHOOSE e \in S : TRUE IN e[2] + SumPairs(S \ {e})

\* Lines 245-246: the summed absolute difference over the visible cells.
TotalDiff(image, watermark, g) ==
    SumPairs({<<c,
                LET ip == image.px[<<g.img_y_start + c[1], g.img_x_start + c[2]>>]
                    wp == watermark.px[<<g.wm_y_start + c[1], g.wm_x_start + c[2]>>]
                IN  Abs(ip[1] - wp[1]) + Abs(ip[2] - wp[2]) + Abs(ip[3] - wp[3])>> :
              c \in VisibleCells(watermark, g)})

\* Whether the candidate (cx, cy) reaches the scoring of lines 245-253.
IsScored(image, watermark, cx, cy) ==
    LET g == CandidateRegion(image, watermark, cx, cy)
    IN  /\ HasValidOverlap(g)
        /\ EnoughVisible(Cardinality(VisibleCells(watermark, g)),
                         Cardinality(RegionCells(g)))

\* Line 249: avg_diff of a scored candidate, a rational.
AvgDiff(image, watermark, cx, cy) ==
    LET g == CandidateRegion(image, watermark, cx, cy)
        num_visible_pixels == Cardinality(VisibleCells(watermark, g))
    IN  IF num_visible_pixels > 0
        THEN Rat(TotalDiff(image, watermark, g), num_visible_pixels)
        ELSE <<1, 0>>

\* The comparison admitting equality: the last of equal candidates wins.
Improves_OrEqual(avg_diff, min_diff) == ~RGt(avg_diff, min_diff)

\* The comparison with the arguments swapped: the worst candidate wins.
Improves_Reversed(avg_diff, min_diff) == RGt(avg_diff, min_diff)

\* Line 251: avg_diff < min_diff.
Improves(avg_diff, min_diff) == RGt(min_diff, avg_diff)

\* Lines 215-253: one iteration of the scan, on st = [best_x, best_y, min_diff].
ScanStep(st, image, watermark, cx, cy) ==
    IF /\ IsScored(image, watermark, cx, cy)
       /\ Improves(AvgDiff(image, watermark, cx, cy), st.min_diff)
    THEN [best_x |-> cx, best_y |-> cy,
          min_diff |-> AvgDiff(image, watermark, cx, cy)]
    ELSE st

\* Lines 199-200.
ScanInit == [best_x |-> 0, best_y |-> 0, min_diff |-> <<1, 0>>]

\* The scan starting one position late on both axes.
NthCandidate_StartsLate(image, radio, center_x, center_y, n) ==
    <<Centro(center_x, image.w) - radio + 1 + (n % (2 * radio)),
      Centro(center_y, image.h) - radio + 1 + (n \div (2 * radio))>>

\* Lines 207-214: the n-th candidate (from 0) of the scan, rows first.
NthCandidate(image, radio, center_x, center_y, n) ==
    <<Centro(center_x, image.w) - radio + (n % (2 * radio)),
      Centro(center_y, image.h) - radio + (n \div (2 * radio))>>

\* Lines 196-255: the position the exhaustive scan returns.
FindWmCpu(image, watermark, radio, center_x, center_y) ==
    LET st[n \in 0 .. 4 * radio * radio] ==
          IF n = 0 THEN ScanInit
          ELSE LET cand == NthCandidate(image, radio, center_x, center_y, n - 1)
               IN  ScanStep(st[n - 1], image, watermark, cand[1], cand[2])
        last == st[4 * radio * radio]
    IN  <<last.best_x, last.best_y>>

\* Lines 196-255 for a radio far larger than the image: the candidates that
\* can overlap the image (lines 228-231 skip the others), and among the scored
\* ones the position the loop ends with, which improved (line 251) on every
\* scored candidate before it and on which none after it improved.  (0, 0)
\* when no candidate is scored.
FindWmEnd(image, watermark, radio, center_x, center_y) ==
    LET cols == Max(Centro(center_x, image.w) - radio, 1 - watermark.w)
                  .. Min(Centro(center_x, image.w) + radio - 1, image.w - 1)
        rows == Max(Centro(center_y, image.h) - radio, 1 - watermark.h)
                  .. Min(Centro(center_y, image.h) + radio - 1, image.h - 1)
        scored == {c \in cols \X rows : IsScored(image, watermark, c[1], c[2])}
        diff == Eager([c \in scored |-> AvgDiff(image, watermark, c[1], c[2])])
        Earlier(a, b) == a[2] < b[2] \/ (a[2] = b[2] /\ a[1] < b[1])
        Last(c) == \A q \in scored \ {c} :
                      IF Earlier(q, c) THEN Improves(diff[c], diff[q])
                      ELSE ~Improves(diff[q], diff[c])
    IN  IF \E c \in scored : Last(c) THEN CHOOSE c \in scored : Last(c)
        ELSE <<ScanInit.best_x, ScanInit.best_y>>

\* A Python slice start:stop of an axis of n samples, for start >= 0: the
\* indexes it selects.  A negative stop counts from the end.
SliceRange(start, stop, n) ==
    LET e == IF stop < 0 THEN Max(0, stop + n) ELSE Min(stop, n)
    IN  start .. e - 1

\* cv2.matchTemplate(TM_SQDIFF, mask) at offset (i, j) of the search region:
\* the squared difference summed over the masked (alpha > 25) watermark cells.
SqDiff(image, watermark, top, left) ==
    SumPairs({<<c,
                LET ip == image.px[<<top + c[1], left + c[2]>>]
                    wp == watermark.px[c]
                IN  (ip[1] - wp[1]) * (ip[1] - wp[1])
                    + (ip[2] - wp[2]) * (ip[2] - wp[2])
                    + (ip[3] - wp[3]) * (ip[3] - wp[3])>> :
              c \in {d \in Cells(watermark.h, watermark.w) : watermark.px[d][4] > 25}})

\* Lines 123-144: the offsets <<row, column>> of the search region at which the
\* whole watermark lies inside the region, i.e. the cells of matchTemplate's
\* result.  Empty when the watermark does not fit: matchTemplate raises.
MatchOffsets(image, watermark, radio, center_x, center_y) ==
    LET search_x_start == Max(0, Centro(center_x, image.w) - radio)
        search_x_end == Min(image.w, Centro(center_x, image.w) + radio)
        search_y_start == Max(0, Centro(center_y, image.h) - radio)
        search_y_end == Min(image.h, Centro(center_y, image.h) + radio)
        cols == SliceRange(search_x_start, search_x_end, image.w)
        rows == SliceRange(search_y_start, search_y_end, image.h)
    IN  {o \in rows \X cols :
            /\ o[1] + watermark.h - 1 \in rows
            /\ o[2] + watermark.w - 1 \in cols}

\* find_wm_gpu answering (0, 0) instead of None when the backend fails.
find_wm_gpu_ZeroOnError(image, watermark, radio, center_x, center_y, gpu_raises) ==
    LET offs == MatchOffsets(image, watermark, radio, center_x, center_y)
    IN  IF gpu_raises \/ offs = {} THEN <<0, 0>>
        ELSE LET o == CHOOSE o \in offs : TRUE IN <<o[2], o[1]>>

\* find_wm_gpu: None when anything inside the try block raises (gpu_raises: the
\* backend fails; or the watermark does not fit into the search region),
\* otherwise the first minimum of the match, rows first, in image coordinates.
find_wm_gpu(image, watermark, radio, center_x, center_y, gpu_raises) ==
    LET offs == MatchOffsets(image, watermark, radio, center_x, center_y)
        Before(a, b) == a[1] < b[1] \/ (a[1] = b[1] /\ a[2] < b[2])
        min_loc == CHOOSE o \in offs :
                      \A q \in offs \ {o} :
                         \/ SqDiff(image, watermark, o[1], o[2])
                              < SqDiff(image, watermark, q[1], q[2])
                         \/ /\ SqDiff(image, watermark, o[1], o[2])
                                = SqDiff(image, watermark, q[1], q[2])
                            /\ Before(o, q)
    IN  IF gpu_raises \/ offs = {} THEN None
        ELSE <<min_loc[2], min_loc[1]>>

(***************************************************************************)
(* align_watermark (wm_remove.py 46-91) on the shapes of its arrays.  The  *)
(* result is [raised, x, y]: raised is "" when coordinates are returned,   *)
(* otherwise the name of the exception.                                    *)
(***************************************************************************)
\* AlignX measuring the right side from the middle of the image.
AlignX_RightFromMiddle(w_img, w_wm, offset_x, side_x) ==
    IF side_x = "left" THEN <<offset_x>>
    ELSE IF side_x = "center" THEN <<(w_img - w_wm) \div 2 + offset_x>>
    ELSE IF side_x = "right" THEN <<(w_img \div 2) - w_wm - offset_x>>
    ELSE None

\* Lines 76-81: x, or None when no branch assigns it.
AlignX(w_img, w_wm, offset_x, side_x) ==
    IF side_x = "left" THEN <<offset_x>>
    ELSE IF side_x = "center" THEN <<(w_img - w_wm) \div 2 + offset_x>>
    ELSE IF side_x = "right" THEN <<w_img - w_wm - offset_x>>
    ELSE None

\* Lines 84-89: y, or None when no branch assigns it.
AlignY(h_img, h_wm, offset_y, side_y) ==
    IF side_y = "top" THEN <<offset_y>>
    ELSE IF side_y = "center" THEN <<(h_img - h_wm) \div 2 + offset_y>>
    ELSE IF side_y = "bottom" THEN <<h_img - h_wm - offset_y>>
    ELSE None

\* align_watermark clamping the position into the image.
align_watermark_Clamped(w_img, h_img, w_wm, h_wm, offset_x, offset_y, side_x, side_y) ==
    LET ax == AlignX(w_img, w_wm, offset_x, side_x)
        ay == AlignY(h_img, h_wm, offset_y, side_y)
    IN  IF ax = None \/ ay = None
        THEN [raised |-> "UnboundLocalError", x |-> 0, y |-> 0]
        ELSE [raised |-> "", x |-> Max(0, Min(ax[1], w_img - 1)),
              y |-> Max(0, Min(ay[1], h_img - 1))]

\* Line 91: return x, y reads a local that was never assigned when a side is
\* not one of the three names, and Python raises UnboundLocalError.
align_watermark(w_img, h_img, w_wm, h_wm, offset_x, offset_y, side_x, side_y) ==
    LET ax == AlignX(w_img, w_wm, offset_x, side_x)
        ay == AlignY(h_img, h_wm, offset_y, side_y)
    IN  IF ax = None \/ ay = None
        THEN [raised |-> "UnboundLocalError", x |-> 0, y |-> 0]
        ELSE [raised |-> "", x |-> ax[1], y |-> ay[1]]

(***************************************************************************)
(* Inputs of the model.                                                    *)
(***************************************************************************)
ImgPalette ==
    << <<100, 101, 200>>, <<50, 50, 50>>, <<199, 199, 199>>,
       <<0, 0, 0>>, <<255, 255, 255>>, <<10, 200, 30>> >>

WmPalette ==
    << <<200, 200, 200, 255>>, <<200, 200, 200, 0>>, <<10, 20, 30, 6>>,
       <<10, 20, 30, 7>>, <<255, 255, 255, 100>>, <<0, 0, 0, 250>>,
       <<30, 60, 90, 170>>, <<90, 60, 30, 240>> >>

\* The h x w grid whose cells run through the palette from seed on, stride
\* entries per cell (stride 0: a solid grid).
GenGrid(palette, h, w, seed, stride) ==
    Grid(h, w, LAMBDA row, col :
                  palette[((seed + stride * (row * w + col)) % Len(palette)) + 1])

\* The forward model of the specification (section 4.1): the watermark
\* composited over the background at the integer position (x0, y0), with
\* a = min(alpha, a_max) / 255, quantised to 8 bits.
Composite(background, watermark, x0, y0, a_max) ==
    Grid(background.h, background.w,
         LAMBDA row, col :
            IF /\ y0 <= row /\ row < y0 + watermark.h
               /\ x0 <= col /\ col < x0 + watermark.w
            THEN LET wmp == watermark.px[<<row - y0, col - x0>>]
                     a == Min(wmp[4], a_max)
                 IN  Px3(LAMBDA c :
                        RoundHalfEven(background.px[<<row, col>>][c] * (255 - a)
                                      + wmp[c] * a, 255))
            ELSE background.px[<<row, col>>])

\* The concrete scenario of the specification, at the model's sizes: a solid
\* (50,50,50) image, a solid (200,200,200) watermark of alpha 255 composited at
\* column 1, row 0 with a clamped to 254/255.
ScenarioBackground == GenGrid(ImgPalette, ImgH, ImgW, 1, 0)
ScenarioWatermark == GenGrid(WmPalette, WmH, WmW, 0, 0)
ScenarioImage == Composite(ScenarioBackground, ScenarioWatermark, 1, 0, 254)

Images ==
    {GenGrid(ImgPalette, ImgH, ImgW, sd[1], sd[2]) : sd \in {<<0, 1>>, <<3, 1>>, <<2, 0>>}}
    \cup {ScenarioImage}

Watermarks ==
    {GenGrid(WmPalette, WmH, WmW, sd[1], sd[2]) :
        sd \in {<<0, 0>>, <<1, 0>>, <<2, 1>>, <<4, 1>>, <<6, 1>>}}

\* Positions in half pixels: from entirely left of (above) the image to
\* entirely right of (below) it.
PositionsX == (-2 * WmW - 1) .. (2 * ImgW + 1)
PositionsY == (-2 * WmH - 1) .. (2 * ImgH + 1)

\* alpha_adjust: 0.5, 1.0 and 1.5.
AlphaAdjusts == {<<1, 2>>, <<1, 1>>, <<3, 2>>}

\* The bytes a build may produce for the undefined conversion of NaN.
NanCasts == {0, 255}

jpeg_filter_strength == 3
jpeg_filter_threshold == 4

VARIABLES
    background,         \* the image before the watermark was composited on it
    image,              \* the image passed to remove_watermark / find_wm
    watermark,          \* the watermark passed to them
    x, y,               \* the position passed to remove_watermark (half pixels)
    alpha_adjust,
    apply_jpeg_filter,
    nan_cast,
    roi,                \* remove_watermark's float32 roi when its loop has ended
    result,             \* the image remove_watermark returned
    paste,              \* where the watermark was composited: <<x0, y0>> or None
    radio, center_x, center_y, use_gpu,     \* find_wm's arguments
    haveOpenCL,         \* what cv2.ocl.haveOpenCL() answers
    gpu_raises,         \* whether the OpenCL backend fails inside find_wm_gpu
    scan,               \* the number of candidates the scan has gone through
    examined,           \* the candidates the scan has gone through
    best_x, best_y, min_diff,               \* find_wm's locals
    found,              \* the position find_wm returned, or None
    filter_strength,    \* apply_jpeg_noise_filter's strength
    filter_threshold,   \* apply_jpeg_noise_filter's edge_threshold
    align_args,         \* align_watermark's arguments, the arrays as shapes
    aligned,            \* what the last call of align_watermark gave
    prev_aligned,       \* what the call before it gave
    width_delta,        \* the change of the image width between the two
    calls,              \* the number of calls of align_watermark
    image_channels,     \* image.shape[2]
    watermark_channels, \* watermark.shape[2]
    raised,             \* the exception remove_watermark raised, or ""
    image_held,         \* what the caller's image array holds now
    watermark_held,     \* what the caller's watermark array holds now
    result_buffer,      \* the array returned: "image", "new", or "" for none
    pos_x, pos_y,       \* the position passed to remove_watermark as floats
    x_int, y_int,       \* remove_watermark's locals of lines 295-298
    x_sub, y_sub,
    resampled,          \* whether cv2.warpAffine was called
    translated,         \* remove_watermark's wm_translated of lines 304-312
    viewer,             \* the SlideshowViewer object: its attributes and widgets
    json,               \* a UtilJson file, the last operation and its outcome
    pc

removeVars == <<x, y, alpha_adjust, apply_jpeg_filter, nan_cast, roi, result>>

findVars == <<paste, radio, center_x, center_y, use_gpu, haveOpenCL, gpu_raises,
              scan, examined, best_x, best_y, min_diff, found>>

filterVars == <<filter_strength, filter_threshold>>

alignVars == <<align_args, aligned, prev_aligned, width_delta, calls>>

channelVars == <<image_channels, watermark_channels, raised>>

bufferVars == <<image_held, watermark_held, result_buffer>>

NoGrid == [h |-> 0, w |-> 0, px |-> <<>>]

splitVars == <<pos_x, pos_y, x_int, y_int, x_sub, y_sub, resampled,
               translated>>

uiVars == <<viewer, json>>

vars == <<background, image, watermark, removeVars, findVars, filterVars,
          alignVars, channelVars, bufferVars, splitVars, uiVars, pc>>

\* No viewer is open and no JSON file is in use.
UiIdle ==
    /\ viewer = <<>>
    /\ json = <<>>

\* The float position and the locals derived from it, while positions are given
\* in half pixels.
SplitIdle ==
    /\ pos_x = None
    /\ pos_y = None
    /\ x_int = 0
    /\ y_int = 0
    /\ x_sub = None
    /\ y_sub = None
    /\ resampled = FALSE
    /\ translated = NoGrid

\* The caller's arrays before any call.
BuffersFresh ==
    /\ image_held = image
    /\ watermark_held = watermark
    /\ result_buffer = ""

\* A three-channel image and a four-channel watermark.
ExpectedChannels ==
    /\ image_channels = 3
    /\ watermark_channels = 4
    /\ raised = ""

\* The variables of align_watermark while another operation is observed.
AlignIdle ==
    /\ align_args = None
    /\ aligned = None
    /\ prev_aligned = None
    /\ width_delta = 0
    /\ calls = 0

\* The arguments of the filter when it is called by remove_watermark.
FilterDefault ==
    /\ filter_strength = jpeg_filter_strength
    /\ filter_threshold = jpeg_filter_threshold

\* The variables of find_wm while remove_watermark is the operation observed.
FindIdle ==
    /\ paste = None
    /\ radio = 0
    /\ center_x = None
    /\ center_y = None
    /\ use_gpu = FALSE
    /\ haveOpenCL = FALSE
    /\ gpu_raises = FALSE
    /\ scan = 0
    /\ examined = {}
    /\ best_x = 0
    /\ best_y = 0
    /\ min_diff = <<1, 0>>
    /\ found = None


InitRemove ==
    /\ image \in Images
    /\ background = image
    /\ watermark \in Watermarks
    /\ x \in PositionsX
    /\ y \in PositionsY
    /\ alpha_adjust \in AlphaAdjusts
    /\ apply_jpeg_filter \in BOOLEAN
    /\ nan_cast \in NanCasts
    /\ roi = <<>>
    /\ result = NoGrid
    /\ FindIdle
    /\ FilterDefault
    /\ AlignIdle
    /\ ExpectedChannels
    /\ BuffersFresh
    /\ UiIdle
    /\ SplitIdle
    /\ pc = "call"

\* One call of remove_watermark with the default thresholds and filter settings.
RemoveWatermark ==
    /\ pc = "call"
    /\ roi' = IF NoOverlap(Overlap(image, watermark, x, y)) THEN <<>>
              ELSE FloatRoi(image, watermark, x, y, alpha_adjust)
    /\ result' = remove_watermark(image, watermark, x, y, alpha_adjust,
                                  apply_jpeg_filter, filter_strength,
                                  filter_threshold, nan_cast)
    /\ image_held' = ImageAfter(image_held, watermark_held, x, y, alpha_adjust,
                                nan_cast)
    /\ watermark_held' = watermark_held
    /\ result_buffer' = ReturnedBuffer(image, watermark, x, y)
    /\ pc' = "done"
    /\ UNCHANGED <<background, image, watermark, x, y, alpha_adjust,
                   apply_jpeg_filter, nan_cast, findVars, filterVars, alignVars,
                   channelVars, splitVars, uiVars>>

NextRemove == RemoveWatermark

SpecRemove == InitRemove /\ [][NextRemove]_vars

(***************************************************************************)
(* Round trip: a one-pixel background composited with a one-pixel          *)
(* watermark and unblended again by remove_watermark, without the filter.  *)
(* The three channels carry three overlay values for one background value. *)
(***************************************************************************)
RoundTripOverlays == <<38, 107, 255>>

InitRoundTrip ==
    /\ \E B \in 0 .. 255 : background = Grid(1, 1, LAMBDA row, col : <<B, B, B>>)
    /\ \E A \in 0 .. 255 :
          watermark = Grid(1, 1, LAMBDA row, col :
                              <<RoundTripOverlays[1], RoundTripOverlays[2],
                                RoundTripOverlays[3], A>>)
    /\ image = Composite(background, watermark, 0, 0, 255)
    /\ x = 0
    /\ y = 0
    /\ alpha_adjust = <<1, 1>>
    /\ apply_jpeg_filter = FALSE
    /\ nan_cast \in NanCasts
    /\ roi = <<>>
    /\ result = NoGrid
    /\ FindIdle
    /\ FilterDefault
    /\ AlignIdle
    /\ ExpectedChannels
    /\ BuffersFresh
    /\ UiIdle
    /\ SplitIdle
    /\ pc = "call"

SpecRoundTrip == InitRoundTrip /\ [][NextRemove]_vars


(***************************************************************************)
(* find_wm as a state machine: the call (with the OpenCL attempt), one     *)
(* step per candidate of the exhaustive scan, and the return.              *)
(***************************************************************************)
\* The largest search radius.
Radio == 2

FindBackgrounds ==
    {GenGrid(ImgPalette, ImgH, ImgW, sd[1], sd[2]) : sd \in {<<0, 1>>, <<1, 0>>, <<3, 2>>}}

FindWatermarks ==
    {GenGrid(WmPalette, WmH, WmW, sd[1], sd[2]) :
        sd \in {<<0, 0>>, <<4, 1>>, <<7, 3>>, <<1, 1>>}}

\* The positions at which the whole watermark lies inside the image.
PastePositions == (0 .. ImgW - WmW) \X (0 .. ImgH - WmH)

Centers(size) == {None} \cup {<<v>> : v \in 0 .. size}

InitFind ==
    /\ background \in FindBackgrounds
    /\ watermark \in FindWatermarks
    /\ paste \in {None} \cup PastePositions
    /\ image = IF paste = None THEN background
               ELSE Composite(background, watermark, paste[1], paste[2], 255)
    /\ radio \in 1 .. Radio
    /\ center_x \in Centers(ImgW)
    /\ center_y \in Centers(ImgH)
    /\ use_gpu \in BOOLEAN
    /\ haveOpenCL \in BOOLEAN
    /\ gpu_raises \in BOOLEAN
    /\ scan = 0
    /\ examined = {}
    /\ best_x = 0
    /\ best_y = 0
    /\ min_diff = <<1, 0>>
    /\ found = None
    /\ x = 0
    /\ y = 0
    /\ alpha_adjust = <<1, 1>>
    /\ apply_jpeg_filter = FALSE
    /\ nan_cast = 0
    /\ roi = <<>>
    /\ result = NoGrid
    /\ FilterDefault
    /\ AlignIdle
    /\ ExpectedChannels
    /\ BuffersFresh
    /\ UiIdle
    /\ SplitIdle
    /\ pc = "find"

\* Whether the call takes the OpenCL path and that path answers a position.
GpuAnswers ==
    /\ use_gpu
    /\ haveOpenCL
    /\ find_wm_gpu(image, watermark, radio, center_x, center_y, gpu_raises) # None

\* Lines 185-200: the call returns the OpenCL answer, or starts the scan.
FindWmCall ==
    /\ pc = "find"
    /\ IF GpuAnswers
       THEN /\ found' = find_wm_gpu(image, watermark, radio, center_x, center_y,
                                    gpu_raises)
            /\ pc' = "found"
       ELSE /\ found' = found
            /\ pc' = "scan"
    /\ scan' = 0
    /\ examined' = {}
    /\ best_x' = ScanInit.best_x
    /\ best_y' = ScanInit.best_y
    /\ min_diff' = ScanInit.min_diff
    /\ UNCHANGED <<background, image, watermark, removeVars, paste, radio,
                   center_x, center_y, use_gpu, haveOpenCL, gpu_raises,
                   filterVars, alignVars,
                   channelVars, bufferVars, splitVars, uiVars>>

\* Lines 213-253: the body of the loops for the next candidate.
FindWmScan ==
    /\ pc = "scan"
    /\ scan < 4 * radio * radio
    /\ LET cand == NthCandidate(image, radio, center_x, center_y, scan)
           st == ScanStep([best_x |-> best_x, best_y |-> best_y,
                           min_diff |-> min_diff],
                          image, watermark, cand[1], cand[2])
       IN  /\ best_x' = st.best_x
           /\ best_y' = st.best_y
           /\ min_diff' = st.min_diff
           /\ examined' = examined \cup {cand}
    /\ scan' = scan + 1
    /\ UNCHANGED <<background, image, watermark, removeVars, paste, radio,
                   center_x, center_y, use_gpu, haveOpenCL, gpu_raises, found, pc,
                   filterVars, alignVars,
                   channelVars, bufferVars, splitVars, uiVars>>

\* Line 255: the loops have ended.
FindWmReturn ==
    /\ pc = "scan"
    /\ scan = 4 * radio * radio
    /\ found' = <<best_x, best_y>>
    /\ pc' = "found"
    /\ UNCHANGED <<background, image, watermark, removeVars, paste, radio,
                   center_x, center_y, use_gpu, haveOpenCL, gpu_raises, scan,
                   examined, best_x, best_y, min_diff, filterVars, alignVars,
                   channelVars, bufferVars, splitVars, uiVars>>

NextFind == FindWmCall \/ FindWmScan \/ FindWmReturn

SpecFind == InitFind /\ [][NextFind]_vars


(***************************************************************************)
(* apply_jpeg_noise_filter called on its own: image is the uint8 image     *)
(* given to it, the region is the overlap of the watermark at the whole    *)
(* position (x, y) and the alpha is the watermark's adjusted alpha there.  *)
(***************************************************************************)
Strengths == {1, 2, 3}
EdgeThresholds == {0, 4, 40}

\* The largest whole position, in pixels, on either side of the origin.
FilterReach == 1

\* Watermarks one column wider, covering a whole row of the image.
WideWatermarks ==
    {GenGrid(WmPalette, WmH, WmW + 1, sd[1], sd[2]) :
        sd \in {<<0, 0>>, <<3, 1>>, <<4, 3>>}}

InitFilter ==
    /\ image \in Images
    /\ background = image
    /\ watermark \in Watermarks \cup WideWatermarks
    /\ x \in {2 * v : v \in -FilterReach .. FilterReach}
    /\ y \in {2 * v : v \in -FilterReach .. FilterReach}
    /\ alpha_adjust \in AlphaAdjusts
    /\ apply_jpeg_filter = TRUE
    /\ nan_cast = 0
    /\ roi = <<>>
    /\ result = NoGrid
    /\ FindIdle
    /\ filter_strength \in Strengths
    /\ filter_threshold \in EdgeThresholds
    /\ AlignIdle
    /\ ExpectedChannels
    /\ BuffersFresh
    /\ UiIdle
    /\ SplitIdle
    /\ pc = "filter"

\* The alpha array remove_watermark passes to the filter (lines 336-337, 371).
FilterAlpha ==
    LET o == Overlap(image, watermark, x, y)
        wm_translated == WmTranslated(watermark, x, y)
    IN  CellFn(o.y_end_img - o.y_start_img, o.x_end_img - o.x_start_img,
               LAMBDA c : AdjustedAlpha(wm_translated, o, alpha_adjust, c[1], c[2]))

\* One call of apply_jpeg_noise_filter.
ApplyJpegNoiseFilter ==
    /\ pc = "filter"
    /\ result' = apply_jpeg_noise_filter(image, FilterAlpha,
                                         Overlap(image, watermark, x, y),
                                         filter_strength, filter_threshold)
    /\ result_buffer' = "new"
    /\ pc' = "filtered"
    /\ UNCHANGED <<background, image, watermark, x, y, alpha_adjust,
                   apply_jpeg_filter, nan_cast, roi, findVars, filterVars, alignVars,
                   channelVars, image_held, watermark_held, splitVars, uiVars>>

NextFilter == ApplyJpegNoiseFilter

SpecFilter == InitFilter /\ [][NextFilter]_vars


(***************************************************************************)
(* align_watermark called once, then once more with the same arguments or  *)
(* with an image whose width alone has changed.                            *)
(***************************************************************************)
\* The largest offset, on either side of zero.
MaxOffset == 2

\* The largest change of the image width, on either side of zero.
MaxDelta == 2

\* The side arguments: the three names, a name of the other axis, and
\* "Literal" for the default value of the parameter, which is no string.
SidesX == {"left", "center", "right", "top", "Literal"}
SidesY == {"top", "center", "bottom", "right", "Literal"}

InitAlign ==
    /\ align_args \in [w_img : 1 .. ImgW, h_img : {1, ImgH},
                       w_wm : 1 .. WmW + 1, h_wm : {1, WmH + 1},
                       offset_x : -MaxOffset .. MaxOffset,
                       offset_y : {-MaxOffset, 0, 1},
                       side_x : SidesX, side_y : SidesY]
    /\ aligned = None
    /\ prev_aligned = None
    /\ width_delta = 0
    /\ calls = 0
    /\ background = NoGrid
    /\ image = NoGrid
    /\ watermark = NoGrid
    /\ x = 0
    /\ y = 0
    /\ alpha_adjust = <<1, 1>>
    /\ apply_jpeg_filter = FALSE
    /\ nan_cast = 0
    /\ roi = <<>>
    /\ result = NoGrid
    /\ FindIdle
    /\ FilterDefault
    /\ ExpectedChannels
    /\ BuffersFresh
    /\ UiIdle
    /\ SplitIdle
    /\ pc = "align"

\* align_watermark on the arguments a.
Align(a) ==
    align_watermark(a.w_img, a.h_img, a.w_wm, a.h_wm, a.offset_x, a.offset_y,
                    a.side_x, a.side_y)

\* The first call.
AlignWatermark ==
    /\ pc = "align"
    /\ calls = 0
    /\ aligned' = Align(align_args)
    /\ calls' = 1
    /\ UNCHANGED <<background, image, watermark, removeVars, findVars,
                   filterVars, align_args, prev_aligned, width_delta, pc,
                   channelVars, bufferVars, splitVars, uiVars>>

\* A second call with the same arguments.
AlignAgain ==
    /\ pc = "align"
    /\ calls = 1
    /\ prev_aligned' = aligned
    /\ aligned' = Align(align_args)
    /\ calls' = 2
    /\ pc' = "aligned"
    /\ UNCHANGED <<background, image, watermark, removeVars, findVars,
                   filterVars, align_args, width_delta, channelVars, bufferVars,
                   splitVars, uiVars>>

\* A second call on an image whose width alone differs, by d.
AlignWider ==
    /\ pc = "align"
    /\ calls = 1
    /\ \E d \in (-MaxDelta .. MaxDelta) \ {0} :
          /\ align_args.w_img + d >= 1
          /\ align_args' = [align_args EXCEPT !.w_img = @ + d]
          /\ width_delta' = d
          /\ aligned' = Align(align_args')
    /\ prev_aligned' = aligned
    /\ calls' = 2
    /\ pc' = "aligned"
    /\ UNCHANGED <<background, image, watermark, removeVars, findVars,
                   filterVars, channelVars, bufferVars, splitVars, uiVars>>

NextAlign == AlignWatermark \/ AlignAgain \/ AlignWider

SpecAlign == InitAlign /\ [][NextAlign]_vars


(***************************************************************************)
(* remove_watermark, without the filter, called on arrays whose channel    *)
(* counts are or are not the expected ones.                                *)
(***************************************************************************)
ChannelCounts == {3, 4}

InitChannels ==
    /\ image \in Images
    /\ background = image
    /\ watermark \in Watermarks
    /\ x \in PositionsX
    /\ y \in PositionsY
    /\ alpha_adjust = <<1, 1>>
    /\ apply_jpeg_filter = FALSE
    /\ nan_cast \in NanCasts
    /\ roi = <<>>
    /\ result = NoGrid
    /\ FindIdle
    /\ FilterDefault
    /\ AlignIdle
    /\ image_channels \in ChannelCounts
    /\ watermark_channels \in ChannelCounts
    /\ raised = ""
    /\ BuffersFresh
    /\ UiIdle
    /\ SplitIdle
    /\ pc = "call"

\* One call of remove_watermark with apply_jpeg_filter = False.
RemoveWatermarkChannels ==
    /\ pc = "call"
    /\ LET r == remove_watermark_channels(image, image_channels, watermark,
                                          watermark_channels, x, y,
                                          alpha_adjust, nan_cast)
       IN  /\ raised' = r.raised
           /\ result' = IF r.raised = "" THEN r.image ELSE NoGrid
           /\ result_buffer' = IF r.raised = ""
                                THEN ReturnedBuffer(image, watermark, x, y)
                                ELSE ""
    /\ pc' = "done"
    /\ UNCHANGED <<background, image, watermark, x, y, alpha_adjust,
                   apply_jpeg_filter, nan_cast, roi, findVars, filterVars,
                   alignVars, image_channels, watermark_channels, image_held,
                   watermark_held, splitVars, uiVars>>

NextChannels == RemoveWatermarkChannels

SpecChannels == InitChannels /\ [][NextChannels]_vars


(***************************************************************************)
(* The search followed by the removal at the position found, both on the   *)
(* same arrays (as slideshow_viewer.py 1080-1096 calls them).              *)
(***************************************************************************)
InitPipeline ==
    /\ background \in FindBackgrounds
    /\ watermark \in FindWatermarks
    /\ paste \in {None} \cup PastePositions
    /\ image = IF paste = None THEN background
               ELSE Composite(background, watermark, paste[1], paste[2], 255)
    /\ radio \in 1 .. Radio
    /\ center_x \in {None, <<0>>}
    /\ center_y \in {None, <<ImgH + Radio>>}
    /\ use_gpu \in BOOLEAN
    /\ haveOpenCL = TRUE
    /\ gpu_raises \in BOOLEAN
    /\ scan = 0
    /\ examined = {}
    /\ best_x = 0
    /\ best_y = 0
    /\ min_diff = <<1, 0>>
    /\ found = None
    /\ x = 0
    /\ y = 0
    /\ alpha_adjust = <<1, 1>>
    /\ apply_jpeg_filter \in BOOLEAN
    /\ nan_cast = 0
    /\ roi = <<>>
    /\ result = NoGrid
    /\ FilterDefault
    /\ AlignIdle
    /\ ExpectedChannels
    /\ BuffersFresh
    /\ UiIdle
    /\ SplitIdle
    /\ pc = "find"

\* remove_watermark called at the position find_wm returned.
RemoveAtFound ==
    /\ pc = "found"
    /\ x' = 2 * found[1]
    /\ y' = 2 * found[2]
    /\ roi' = IF NoOverlap(Overlap(image, watermark, x', y')) THEN <<>>
              ELSE FloatRoi(image, watermark, x', y', alpha_adjust)
    /\ result' = remove_watermark(image, watermark, x', y', alpha_adjust,
                                  apply_jpeg_filter, filter_strength,
                                  filter_threshold, nan_cast)
    /\ image_held' = ImageAfter(image_held, watermark_held, x', y', alpha_adjust,
                                nan_cast)
    /\ watermark_held' = watermark_held
    /\ result_buffer' = ReturnedBuffer(image, watermark, x', y')
    /\ pc' = "done"
    /\ UNCHANGED <<background, image, watermark, alpha_adjust, apply_jpeg_filter,
                   nan_cast, findVars, filterVars, alignVars, channelVars,
                   splitVars, uiVars>>

NextPipeline == FindWmCall \/ FindWmScan \/ FindWmReturn \/ RemoveAtFound

SpecPipeline == InitPipeline /\ [][NextPipeline]_vars


(***************************************************************************)
(* remove_watermark at float positions: the split of lines 295-298 and what *)
(* follows from it, with the filter disabled.                              *)
(***************************************************************************)
FloatPositions(halves) == {<<n, 0>> : n \in halves} \cup {<<0, 1>>, <<0, -1>>}

\* Images and watermarks of several sizes: a watermark taller than the image,
\* an image smaller than the watermark.
SplitImages == Images \cup {GenGrid(ImgPalette, 1, 1, 5, 0)}

SplitWatermarks ==
    {GenGrid(WmPalette, WmH, WmW, sd[1], sd[2]) : sd \in {<<0, 0>>, <<2, 1>>, <<4, 1>>}}
    \cup {GenGrid(WmPalette, WmH, WmW + 1, 3, 1),
          GenGrid(WmPalette, ImgH + 1, WmW, 2, 1)}

InitSplit ==
    /\ image \in SplitImages
    /\ background = image
    /\ watermark \in SplitWatermarks
    /\ pos_x \in FloatPositions(PositionsX)
    /\ pos_y \in FloatPositions(PositionsY)
    /\ x = 0
    /\ y = 0
    /\ alpha_adjust = <<1, 1>>
    /\ apply_jpeg_filter = FALSE
    /\ nan_cast \in NanCasts
    /\ roi = <<>>
    /\ result = NoGrid
    /\ x_int = 0
    /\ y_int = 0
    /\ x_sub = None
    /\ y_sub = None
    /\ resampled = FALSE
    /\ translated = NoGrid
    /\ FindIdle
    /\ FilterDefault
    /\ AlignIdle
    /\ ExpectedChannels
    /\ BuffersFresh
    /\ UiIdle
    /\ pc = "call"

\* Lines 295-379.  cv2.warpAffine keeps five fractional bits of the offsets, so
\* an offset under 2^-54 resamples to the watermark itself.
RemoveWatermarkFloat ==
    /\ pc = "call"
    /\ x_int' = FloorFloat(pos_x)
    /\ y_int' = FloorFloat(pos_y)
    /\ x_sub' = ModOne(pos_x)
    /\ y_sub' = ModOne(pos_y)
    /\ resampled' = (x_sub' # <<0, 0>> \/ y_sub' # <<0, 0>>)
    /\ translated' = IF resampled'
                        THEN WarpAffine(watermark, x_sub'[1], y_sub'[1])
                        ELSE watermark
    /\ LET o == Overlap(image, watermark, 2 * x_int', 2 * y_int')
       IN  /\ roi' = IF NoOverlap(o) THEN <<>>
                     ELSE FloatRoiAt(image, translated', o, alpha_adjust)
           /\ result' = IF NoOverlap(o) THEN image
                        ELSE UnblendedAt(image, translated', o, alpha_adjust,
                                         nan_cast)
           /\ result_buffer' = IF NoOverlap(o) THEN "image" ELSE WrittenBuffer
    /\ image_held' = image_held
    /\ watermark_held' = watermark_held
    /\ pc' = "done"
    /\ UNCHANGED <<background, image, watermark, x, y, alpha_adjust,
                   apply_jpeg_filter, nan_cast, findVars, filterVars, alignVars,
                   channelVars, pos_x, pos_y, uiVars>>

NextSplit == RemoveWatermarkFloat

SpecSplit == InitSplit /\ [][NextSplit]_vars

(***************************************************************************)
(* The slideshow viewer (ui/slideshow_viewer.py).  viewer is the           *)
(* SlideshowViewer object: its attributes under their own names, the        *)
(* enabled state of next_btn, prev_btn and watermark_combo, the value of    *)
(* the alpha_adjust spin box (alpha_value), the index of watermark_combo    *)
(* (combo_index), and the pictures written to the output folder (saved).    *)
(* An absent value is None, a present one <<v>>.  The viewer is opened      *)
(* without stored positions, so a click outside manual mode does nothing.   *)
(* Three fields record the history: op is the handler called last, ignored  *)
(* tells whether that call changed nothing, and disabled_by_preview holds   *)
(* the controls whose last setEnabled was the False of lines 1102-1104.     *)
(***************************************************************************)
MaxAccepts == 1

\* Line 1080: radio=140.
PreviewRadio == 140

\* A file of the pictures' folder.  cv2.imdecode cannot decode .psd, and
\* cv2.imencode has no encoder for .jfif; SUPPORTED_FORMATS (line 50) has both.
PictureFile(suffix, data) ==
    [decodable |-> suffix # ".psd", encodable |-> suffix \notin {".psd", ".jfif"},
     data |-> data]

ViewerWatermarks ==
    << GenGrid(WmPalette, WmH, WmW, 4, 1), GenGrid(WmPalette, WmH, WmW, 7, 3) >>

PictureA == Composite(GenGrid(ImgPalette, ImgH, ImgW, 0, 1), ViewerWatermarks[1], 1, 0, 255)
PictureB == GenGrid(ImgPalette, ImgH, ImgW, 3, 2)

\* The first picture of a folder can be decoded: otherwise the constructor
\* raises at line 108.
\* The sessions of the viewer: the folder of pictures, whether a folder of
\* watermarks is given, whether OpenCL is available, and the byte the build
\* produces for a NaN.
Sessions ==
    { << <<PictureFile(".png", PictureA), PictureFile(".png", PictureB)>>, TRUE, TRUE, 0 >>,
      << <<PictureFile(".png", PictureA), PictureFile(".png", PictureB)>>, TRUE, FALSE, 255 >>,
      << <<PictureFile(".jfif", PictureA), PictureFile(".png", PictureB)>>, TRUE, FALSE, 0 >>,
      << <<PictureFile(".png", PictureA), PictureFile(".psd", NoGrid)>>, TRUE, TRUE, 255 >>,
      << <<PictureFile(".png", PictureA), PictureFile(".png", PictureB)>>, FALSE, FALSE, 0 >>,
      << <<PictureFile(".jfif", PictureA), PictureFile(".psd", NoGrid)>>, FALSE, TRUE, 255 >> }

\* The values of the alpha_adjust spin box: 1.0 (line 212) and 1.5.
AlphaValues == {<<1, 1>>, <<3, 2>>}

\* The positions of the cursor over the picture, in image coordinates.  A
\* search of radius PreviewRadio around any of them covers the whole picture.
MousePositions == {<<ImgW - 1, ImgH - 1>>}

\* Lines 52-108: the viewer after its constructor, with a folder of watermarks
\* (and then an output folder, lines 99-100) or without one.
NewViewer(folder, with_watermarks) ==
    [image_files |-> folder,
     watermark_files |-> IF with_watermarks THEN ViewerWatermarks ELSE <<>>,
     current_index |-> 0,
     working_image |-> <<folder[1].data>>,
     output_folder |-> with_watermarks,
     saved |-> [i \in 1 .. Len(folder) |-> None],
     processed_images |-> {},
     manual_mode_enabled |-> FALSE,
     mouse_position |-> None,
     preview_image |-> None,
     is_preview_active |-> FALSE,
     current_event_position |-> None,
     current_event_watermark_index |-> None,
     base_image_for_preview |-> None,
     watermark_alpha_values |->
         [i \in 0 .. (IF with_watermarks THEN Len(ViewerWatermarks) ELSE 0) - 1 |-> None],
     alpha_value |-> <<1, 1>>,
     combo_index |-> IF with_watermarks THEN 0 ELSE -1,
     watermark_combo |-> TRUE,
     prev_btn |-> FALSE,
     next_btn |-> Len(folder) > 1,
     user_approved |-> FALSE,
     accepts |-> 0,
     op |-> "",
     ignored |-> FALSE,
     disabled_by_preview |-> {}]

CurrentFile(v) == v.image_files[v.current_index + 1]

\* Lines 495-536.  load_images_cv2 raises for a file it cannot decode; the
\* exception leaves the handler before the buttons are updated.
ShowCurrentImage(v) ==
    IF Len(v.image_files) = 0 \/ v.current_index >= Len(v.image_files) THEN v
    ELSE IF v.working_image = None /\ ~CurrentFile(v).decodable THEN v
    ELSE [v EXCEPT !.working_image = IF @ = None THEN <<CurrentFile(v).data>> ELSE @,
                   !.prev_btn = v.current_index > 0,
                   !.next_btn = v.current_index < Len(v.image_files) - 1,
                   !.disabled_by_preview = @ \ {"prev_btn", "next_btn"}]

\* Lines 764-771.
ClearImageMemory(v) ==
    [v EXCEPT !.working_image = None,
              !.base_image_for_preview = None,
              !.current_event_position = None,
              !.current_event_watermark_index = None,
              !.preview_image = None,
              !.is_preview_active = FALSE]

\* Lines 798-821: load_images_cv2 or guardar raising is caught at line 820.
SaveCurrentImageAsIs(v) ==
    IF ~v.output_folder \/ Len(v.image_files) = 0 THEN v
    ELSE IF ~CurrentFile(v).decodable \/ ~CurrentFile(v).encodable THEN v
    ELSE [v EXCEPT !.saved[v.current_index + 1] = <<CurrentFile(v).data>>,
                   !.processed_images = @ \cup {v.current_index}]

\* Lines 1194-1198.
FinishReview(v) == [v EXCEPT !.user_approved = TRUE]

\* Lines 773-787.
NextImage(v) ==
    LET cleared == ClearImageMemory(v)
        kept == IF cleared.current_index \notin cleared.processed_images
                THEN SaveCurrentImageAsIs(cleared)
                ELSE cleared
    IN  IF kept.current_index < Len(kept.image_files) - 1
        THEN ShowCurrentImage([kept EXCEPT !.current_index = @ + 1])
        ELSE FinishReview(kept)

\* Lines 789-796.
PreviousImage(v) ==
    LET cleared == ClearImageMemory(v)
    IN  IF cleared.current_index > 0
        THEN ShowCurrentImage([cleared EXCEPT !.current_index = @ - 1])
        ELSE cleared

\* Lines 446-456: the spin box takes the alpha kept for the chosen watermark,
\* with its signals blocked.
OnWatermarkChanged(v, index) ==
    LET chosen == [v EXCEPT !.combo_index = index]
    IN  IF index >= 0
        THEN ShowCurrentImage(
                [chosen EXCEPT !.alpha_value =
                    IF v.watermark_alpha_values[index] = None THEN <<1, 1>>
                    ELSE v.watermark_alpha_values[index][1]])
        ELSE chosen

\* Lines 928-955.
ToggleManualMode(v) ==
    IF ~v.manual_mode_enabled
    THEN [v EXCEPT !.manual_mode_enabled = TRUE]
    ELSE [v EXCEPT !.manual_mode_enabled = FALSE,
                   !.mouse_position = None,
                   !.preview_image = None,
                   !.is_preview_active = FALSE]

\* Lines 957-996.
UpdateManualOverlay(v, pos) ==
    IF v.combo_index < 0 \/ Len(v.watermark_files) = 0 THEN v
    ELSE [v EXCEPT !.mouse_position = <<pos>>]

\* find_wm as the viewer calls it (lines 1076-1083), use_gpu=True.
PreviewFindWm(base, wm, pos) ==
    LET gpu == find_wm_gpu(base, wm, PreviewRadio, <<pos[1]>>, <<pos[2]>>, gpu_raises)
    IN  IF haveOpenCL /\ gpu # None THEN gpu
        ELSE FindWmEnd(base, wm, PreviewRadio, <<pos[1]>>, <<pos[2]>>)

\* remove_watermark as the viewer calls it (lines 1019-1025, 1090-1096): the
\* thresholds and the filter at their defaults.
PreviewRemove(base, wm, position, alpha) ==
    remove_watermark(base, wm, 2 * position[1], 2 * position[2], alpha, TRUE,
                     jpeg_filter_strength, jpeg_filter_threshold, nan_cast)

\* Lines 998-1033.
OnAlphaChanged(v, value) ==
    LET kept == [v EXCEPT !.alpha_value = value,
                          !.watermark_alpha_values =
                              IF v.combo_index >= 0
                              THEN [@ EXCEPT ![v.combo_index] = <<value>>]
                              ELSE @]
    IN  IF ~v.is_preview_active THEN kept
        ELSE IF v.current_event_position = None
                \/ v.current_event_watermark_index = None
        THEN kept
        ELSE [kept EXCEPT !.preview_image =
                 <<PreviewRemove(v.base_image_for_preview[1],
                                 v.watermark_files[v.current_event_watermark_index[1] + 1],
                                 v.current_event_position[1], value)>>]

\* Line 1038.
AlreadyActive_Never(v) == FALSE

AlreadyActive(v) == v.is_preview_active

\* Lines 1035-1119.
RemoveWatermarkPreview(v) ==
    IF AlreadyActive(v) THEN v
    ELSE IF v.mouse_position = None \/ Len(v.image_files) = 0 THEN v
    ELSE IF v.combo_index < 0 \/ Len(v.watermark_files) = 0 THEN v
    ELSE IF v.working_image = None THEN v
    ELSE LET base == v.working_image[1]
             wm == v.watermark_files[v.combo_index + 1]
             best == PreviewFindWm(base, wm, v.mouse_position[1])
         IN  [v EXCEPT !.base_image_for_preview = <<base>>,
                       !.current_event_watermark_index = <<v.combo_index>>,
                       !.current_event_position = <<best>>,
                       !.preview_image = <<PreviewRemove(base, wm, best, v.alpha_value)>>,
                       !.is_preview_active = TRUE,
                       !.next_btn = FALSE,
                       !.prev_btn = FALSE,
                       !.watermark_combo = FALSE,
                       !.disabled_by_preview =
                           {"next_btn", "prev_btn", "watermark_combo"}]

\* Lines 1121-1164.  guardar raising (line 1135) is caught at line 1163, after
\* working_image was assigned.
AcceptPreview(v) ==
    IF ~v.is_preview_active \/ v.preview_image = None THEN v
    ELSE LET taken == [v EXCEPT !.output_folder = TRUE,
                                !.working_image = v.preview_image,
                                !.accepts = @ + 1]
         IN  IF ~CurrentFile(v).encodable THEN taken
             ELSE [taken EXCEPT !.saved[v.current_index + 1] = v.preview_image,
                                !.processed_images = @ \cup {v.current_index},
                                !.base_image_for_preview = None,
                                !.current_event_position = None,
                                !.current_event_watermark_index = None,
                                !.preview_image = None,
                                !.is_preview_active = FALSE,
                                !.next_btn = TRUE,
                                !.prev_btn = TRUE,
                                !.watermark_combo = TRUE,
                                !.disabled_by_preview = {}]

\* Lines 1166-1192.
RevertPreview(v) ==
    IF ~v.is_preview_active THEN v
    ELSE [v EXCEPT !.base_image_for_preview = None,
                   !.current_event_position = None,
                   !.current_event_watermark_index = None,
                   !.preview_image = None,
                   !.is_preview_active = FALSE,
                   !.next_btn = TRUE,
                   !.prev_btn = TRUE,
                   !.watermark_combo = TRUE,
                   !.disabled_by_preview = {}]

\* The attributes and widgets of the viewer, without the record of the call.
Attributes(v) == [v EXCEPT !.op = "", !.ignored = FALSE]

\* The viewer after the handler op turned before into after.
Called(op, before, after) ==
    [after EXCEPT !.op = op, !.ignored = (Attributes(after) = Attributes(before))]

InitViewer ==
    /\ \E session \in Sessions :
          /\ viewer = NewViewer(session[1], session[2])
          /\ haveOpenCL = session[3]
          /\ nan_cast = session[4]
    /\ json = <<>>
    /\ background = NoGrid
    /\ image = NoGrid
    /\ watermark = NoGrid
    /\ x = 0
    /\ y = 0
    /\ alpha_adjust = <<1, 1>>
    /\ apply_jpeg_filter = TRUE
    /\ roi = <<>>
    /\ result = NoGrid
    /\ paste = None
    /\ radio = PreviewRadio
    /\ center_x = None
    /\ center_y = None
    /\ use_gpu = TRUE
    /\ gpu_raises = FALSE
    /\ scan = 0
    /\ examined = {}
    /\ best_x = 0
    /\ best_y = 0
    /\ min_diff = <<1, 0>>
    /\ found = None
    /\ FilterDefault
    /\ AlignIdle
    /\ ExpectedChannels
    /\ BuffersFresh
    /\ SplitIdle
    /\ pc = "open"

Open == pc = "open" /\ ~viewer.user_approved

ViewerFrame ==
    UNCHANGED <<background, image, watermark, removeVars, findVars, filterVars,
                alignVars, channelVars, bufferVars, splitVars, json, pc>>

\* The check box "Modo selección manual" (line 203).
ToggleManualModeCall ==
    /\ Open
    /\ viewer' = Called("_toggle_manual_mode", viewer, ToggleManualMode(viewer))
    /\ ViewerFrame

\* The cursor moves over the picture in manual mode (lines 907-911).
MouseMove ==
    /\ Open
    /\ viewer.manual_mode_enabled
    /\ \E pos \in MousePositions :
          viewer' = Called("_update_manual_overlay", viewer,
                           UpdateManualOverlay(viewer, pos))
    /\ ViewerFrame

\* The spin box, shown in manual mode, takes another value (line 216).
AlphaChanged ==
    /\ Open
    /\ viewer.manual_mode_enabled
    /\ \E value \in AlphaValues \ {viewer.alpha_value} :
          viewer' = Called("_on_alpha_changed", viewer, OnAlphaChanged(viewer, value))
    /\ ViewerFrame

\* Another watermark is chosen in the enabled combo box (line 195).
WatermarkChanged ==
    /\ Open
    /\ viewer.watermark_combo
    /\ \E index \in (0 .. Len(viewer.watermark_files) - 1) \ {viewer.combo_index} :
          viewer' = Called("_on_watermark_changed", viewer,
                           OnWatermarkChanged(viewer, index))
    /\ ViewerFrame

\* A left click on the picture in manual mode (lines 913-918), or remove_btn.
RemoveWatermarkPreviewCall ==
    /\ Open
    /\ viewer.manual_mode_enabled
    /\ viewer' = Called("_remove_watermark_preview", viewer,
                        RemoveWatermarkPreview(viewer))
    /\ ViewerFrame

\* Space in manual mode (lines 1284-1286), or accept_btn.
AcceptPreviewCall ==
    /\ Open
    /\ viewer.manual_mode_enabled
    /\ viewer.accepts < MaxAccepts
    /\ viewer' = Called("_accept_preview", viewer, AcceptPreview(viewer))
    /\ ViewerFrame

\* Backspace in manual mode (lines 1289-1291), or revert_btn.
RevertPreviewCall ==
    /\ Open
    /\ viewer.manual_mode_enabled
    /\ viewer' = Called("_revert_preview", viewer, RevertPreview(viewer))
    /\ ViewerFrame

\* next_btn when enabled (line 260), or Space outside manual mode (line 1288).
NextImageCall ==
    /\ Open
    /\ viewer.next_btn \/ ~viewer.manual_mode_enabled
    /\ viewer' = Called("_next_image", viewer, NextImage(viewer))
    /\ ViewerFrame

\* prev_btn when enabled (line 254), or Backspace outside manual mode
\* (line 1293).
PreviousImageCall ==
    /\ Open
    /\ viewer.prev_btn \/ ~viewer.manual_mode_enabled
    /\ viewer' = Called("_previous_image", viewer, PreviousImage(viewer))
    /\ ViewerFrame

NextViewer ==
    \/ ToggleManualModeCall
    \/ MouseMove
    \/ AlphaChanged
    \/ WatermarkChanged
    \/ RemoveWatermarkPreviewCall
    \/ AcceptPreviewCall
    \/ RevertPreviewCall
    \/ NextImageCall
    \/ PreviousImageCall

SpecViewer == InitViewer /\ [][NextViewer]_vars

(***************************************************************************)
(* UtilJson (utils/json_utils.py) on one file.  json.dir tells whether the  *)
(* directory of the path exists; json.file is the file: missing, of zero    *)
(* bytes ("empty"), holding text that is not JSON ("invalid"), or holding a *)
(* JSON object, json.file.data, a function from its keys to JSON values.    *)
(* A Python value is <<type, content>>, a JSON value <<kind, content>>.     *)
(* The other fields record the last call: op, key, value, the file before   *)
(* it, the exception it raised ("" when none) and what it returned.         *)
(***************************************************************************)
JsonKeys == {"last_watermark_folder", "newtoki"}

\* The values handed to set: two strings, a dict with string keys, a list, a
\* tuple and a set.
PythonValues ==
    { <<"str", <<1>>>>, <<"str", <<2>>>>, <<"dict", <<1>>>>,
      <<"list", <<1, 2>>>>, <<"tuple", <<1, 2>>>>, <<"set", <<1, 2>>>> }

\* json.dump (line 62) raises TypeError for a value of any other type.
JsonEncodable(value) == value[1] \in {"str", "dict", "list", "tuple"}

\* json.dump: the JSON value written for a Python value.
Dumps(value) ==
    CASE value[1] = "str" -> <<"string", value[2]>>
      [] value[1] = "dict" -> <<"object", value[2]>>
      [] value[1] \in {"list", "tuple"} -> <<"array", value[2]>>

\* json.load: the Python value read for a JSON value.
Loads(text) ==
    CASE text[1] = "string" -> <<"str", text[2]>>
      [] text[1] = "object" -> <<"dict", text[2]>>
      [] text[1] = "array" -> <<"list", text[2]>>

MissingFile == [kind |-> "missing", data |-> <<>>]
EmptyFile == [kind |-> "empty", data |-> <<>>]
InvalidFile == [kind |-> "invalid", data |-> <<>>]
ObjectFile(data) == [kind |-> "object", data |-> data]

\* Lines 38-49: FileNotFoundError and JSONDecodeError give {}.
Read(file) ==
    IF file.kind = "object"
    THEN Eager([k \in DOMAIN file.data |-> Loads(file.data[k])])
    ELSE <<>>

\* Lines 51-63, as [raised, file].  open(path, 'w') raises when the directory
\* is missing and truncates the file otherwise; json.dump writes the text
\* piece by piece and raises at the first value it cannot encode, leaving the
\* beginning of an object in the file.
Write(dir, data) ==
    IF ~dir THEN [raised |-> "FileNotFoundError", file |-> MissingFile]
    ELSE IF \E k \in DOMAIN data : ~JsonEncodable(data[k])
    THEN [raised |-> "TypeError", file |-> InvalidFile]
    ELSE [raised |-> "", file |-> ObjectFile(Eager([k \in DOMAIN data |-> Dumps(data[k])]))]

\* Lines 80-92, default=None: the value as <<value>>, or None.
Get(file, key) ==
    IF key \in DOMAIN Read(file) THEN <<Read(file)[key]>> ELSE None

\* Lines 94-108.
Set(dir, file, key, value) ==
    Write(dir, Eager([k \in DOMAIN Read(file) \cup {key} |->
                         IF k = key THEN value ELSE Read(file)[k]]))

\* Lines 110-123.
Delete(dir, file, key) ==
    Write(dir, Eager([k \in DOMAIN Read(file) \ {key} |-> Read(file)[k]]))

\* Lines 125-138, with a key.
Exists(file, key) == key \in DOMAIN Read(file)

\* The store on a file, before any call.
NewStore(dir, file) ==
    [dir |-> dir, file |-> file, before |-> file, op |-> "", key |-> "",
     value |-> None, raised |-> "", returned |-> None, answer |-> FALSE,
     dict |-> <<>>]

\* The files the store is opened on: in a directory that does not exist,
\* missing, empty, and holding an object.
InitialStores ==
    { NewStore(FALSE, MissingFile), NewStore(TRUE, MissingFile),
      NewStore(TRUE, EmptyFile),
      NewStore(TRUE, ObjectFile(Eager([k \in {"newtoki"} |-> <<"object", <<1>>>>]))) }

InitJson ==
    /\ json \in InitialStores
    /\ viewer = <<>>
    /\ background = NoGrid
    /\ image = NoGrid
    /\ watermark = NoGrid
    /\ x = 0
    /\ y = 0
    /\ alpha_adjust = <<1, 1>>
    /\ apply_jpeg_filter = TRUE
    /\ nan_cast = 0
    /\ roi = <<>>
    /\ result = NoGrid
    /\ FindIdle
    /\ FilterDefault
    /\ AlignIdle
    /\ ExpectedChannels
    /\ BuffersFresh
    /\ SplitIdle
    /\ pc = "store"

JsonFrame ==
    UNCHANGED <<background, image, watermark, removeVars, findVars, filterVars,
                alignVars, channelVars, bufferVars, splitVars, viewer, pc>>

JsonSet ==
    /\ pc = "store"
    /\ \E key \in JsonKeys, value \in PythonValues :
          LET written == Set(json.dir, json.file, key, value)
          IN  json' = [NewStore(json.dir, written.file) EXCEPT
                          !.before = json.file, !.op = "set", !.key = key,
                          !.value = <<value>>, !.raised = written.raised]
    /\ JsonFrame

JsonDelete ==
    /\ pc = "store"
    /\ \E key \in JsonKeys :
          LET written == Delete(json.dir, json.file, key)
          IN  json' = [NewStore(json.dir, written.file) EXCEPT
                          !.before = json.file, !.op = "delete", !.key = key,
                          !.raised = written.raised]
    /\ JsonFrame

JsonGet ==
    /\ pc = "store"
    /\ \E key \in JsonKeys :
          json' = [NewStore(json.dir, json.file) EXCEPT
                      !.op = "get", !.key = key,
                      !.returned = Get(json.file, key)]
    /\ JsonFrame

JsonExists ==
    /\ pc = "store"
    /\ \E key \in JsonKeys :
          json' = [NewStore(json.dir, json.file) EXCEPT
                      !.op = "exists", !.key = key,
                      !.answer = Exists(json.file, key)]
    /\ JsonFrame

JsonRead ==
    /\ pc = "store"
    /\ json' = [NewStore(json.dir, json.file) EXCEPT
                    !.op = "read", !.dict = Read(json.file)]
    /\ JsonFrame

NextJson == JsonSet \/ JsonDelete \/ JsonGet \/ JsonExists \/ JsonRead

SpecJson == InitJson /\ [][NextJson]_vars

(***************************************************************************)
(* Claims about remove_watermark.                                          *)
(***************************************************************************)
\* The cells of the image covered by the watermark's box at (floor(x), floor(y)).
InBox(c) ==
    /\ FloorPos(y) <= c[1] /\ c[1] < FloorPos(y) + watermark.h
    /\ FloorPos(x) <= c[2] /\ c[2] < FloorPos(x) + watermark.w

BoxCells == {c \in Cells(image.h, image.w) : InBox(c)}

\* The adjusted alpha of the watermark pixel paired with image cell c.
AlphaAt(c) ==
    LET o == Overlap(image, watermark, x, y)
    IN  AdjustedAlpha(WmTranslated(watermark, x, y), o, alpha_adjust,
                      c[1] - o.y_start_img, c[2] - o.x_start_img)

\* The watermark pixel paired with image cell c.
WmPixelAt(c) ==
    WmTranslated(watermark, x, y).px[<<c[1] - FloorPos(y), c[2] - FloorPos(x)>>]

\* C1: the image remove_watermark returns, with or without the filter, has the
\* input's size and equals the input on every pixel outside the rectangle where
\* the watermark's box at (floor(x), floor(y)) meets the image.
C1_OutsideBoxUntouched ==
    pc = "done" =>
        /\ result.h = image.h
        /\ result.w = image.w
        /\ \A c \in Cells(image.h, image.w) \ BoxCells : result.px[c] = image.px[c]

\* A filtered removal at a fractional position hanging off the left edge that
\* changed the inside of the box and had pixels outside it to preserve.
C1_Witness ==
    /\ pc = "done"
    /\ apply_jpeg_filter
    /\ SubPos(x) = 1
    /\ FloorPos(x) < 0
    /\ BoxCells # {}
    /\ BoxCells # Cells(image.h, image.w)
    /\ \E c \in BoxCells : result.px[c] # image.px[c]

\* C2: with the filter enabled, every pixel of the overlap whose adjusted alpha
\* is at or below transparency_threshold keeps exactly its input value.
C2_BelowThresholdUntouched ==
    (pc = "done" /\ apply_jpeg_filter) =>
        \A c \in BoxCells :
            ~AboveThreshold(AlphaAt(c)) => result.px[c] = image.px[c]

\* C3: the unblending never produces an infinite or NaN value: every value of
\* the float roi is finite when the loop has ended.
C3_NoNaN ==
    pc = "done" =>
        \A i \in DOMAIN roi : \A j \in DOMAIN roi[i] : \A c \in 1 .. 3 :
            IsFinite(roi[i][j][c])

\* The alpha byte and the background value of the round trip.
RoundTripAlpha == watermark.px[<<0, 0>>][4]
RoundTripError(c) == Abs(result.px[<<0, 0>>][c] - background.px[<<0, 0>>][c])

\* C4 as stated: for every alpha a in [0, 0.99] (an alpha byte up to 252) the
\* unblended composite is within 2 of the background on every channel.
C4_RoundTrip ==
    (pc = "done" /\ RoundTripAlpha <= 252) =>
        \A c \in 1 .. 3 : RoundTripError(c) <= 2

\* C4 amended: the same for an alpha byte above transparency_threshold and at
\* most 191, where the quantisation error of the composite (at most 127/255),
\* amplified by 255 / (255 - alpha), stays strictly below 2.
C4_RoundTripAmended ==
    (pc = "done" /\ RoundTripAlpha > transparency_threshold /\ RoundTripAlpha <= 191) =>
        \A c \in 1 .. 3 : RoundTripError(c) <= 2

\* A round trip at alpha 191 whose composite differs from its background and
\* whose unblended value is 2 away from it.
C4_Witness ==
    /\ pc = "done"
    /\ RoundTripAlpha = 191
    /\ image # background
    /\ \E c \in 1 .. 3 : RoundTripError(c) = 2

\* C5: in the concrete scenario remove_watermark returns (50,50,50) within 2 on
\* every pixel of the patch and exactly (50,50,50) outside it.
C5_Scenario ==
    (/\ pc = "done"
     /\ image = ScenarioImage
     /\ watermark = ScenarioWatermark
     /\ x = 2 /\ y = 0
     /\ alpha_adjust = <<1, 1>>
     /\ apply_jpeg_filter) =>
        \A c \in Cells(image.h, image.w) : \A k \in 1 .. 3 :
            IF InBox(c) THEN Abs(result.px[c][k] - 50) <= 2
            ELSE result.px[c][k] = 50

\* C6: a watermark whose box lies entirely left of, right of, above or below
\* the image leaves the image unchanged.
BoxMissesImage ==
    \/ x + 2 * watermark.w <= 0
    \/ x >= 2 * image.w
    \/ y + 2 * watermark.h <= 0
    \/ y >= 2 * image.h

C6_NoOverlapNoOp == (pc = "done" /\ BoxMissesImage) => result = image

\* A removal with the filter enabled whose watermark lies entirely left of the
\* image.
C6_Witness ==
    /\ pc = "done"
    /\ x + 2 * watermark.w < 0
    /\ apply_jpeg_filter
    /\ result = image

\* clamp(255*c/(255-a) - a*w/(255-a), 0, 255) reduced to 8 bits, for the
\* rational alpha a = an / ad below 255.
ExpectedChannel(a, c, w) ==
    LET num == 255 * c * a[2] - a[1] * w
        den == 255 * a[2] - a[1]
    IN  IF num < 0 THEN 0
        ELSE IF num > 255 * den THEN 255
        ELSE num \div den

MidAlpha(a) == AboveThreshold(a) /\ ~RGt(a, FromInt(opaque_threshold))

\* C7: without the filter, every pixel of the overlap whose adjusted alpha is
\* above transparency_threshold and not above opaque_threshold holds the clamped
\* unblending formula applied to the observed pixel, and every channel of the
\* returned image is in 0..255.
C7_UnblendFormula ==
    (pc = "done" /\ ~apply_jpeg_filter) =>
        /\ \A c \in BoxCells :
              MidAlpha(AlphaAt(c)) =>
                 \A k \in 1 .. 3 :
                    result.px[c][k] =
                        ExpectedChannel(AlphaAt(c), image.px[c][k], WmPixelAt(c)[k])
        /\ \A c \in Cells(image.h, image.w) : \A k \in 1 .. 3 :
              result.px[c][k] \in 0 .. 255

\* An unfiltered removal with a mid-alpha pixel in a later column of the
\* region, changed by the unblending.
C7_Witness ==
    /\ pc = "done"
    /\ ~apply_jpeg_filter
    /\ \E c \in BoxCells :
          /\ MidAlpha(AlphaAt(c))
          /\ c[2] > Max(0, FloorPos(x))
          /\ result.px[c] # image.px[c]


(***************************************************************************)
(* Claims about find_wm.                                                   *)
(***************************************************************************)
\* The candidates the exhaustive scan goes through.
Window ==
    {NthCandidate(image, radio, center_x, center_y, n) :
        n \in 0 .. 4 * radio * radio - 1}

\* At least 30% of the watermark's pixels are visible.
ThirtyPercentVisible ==
    10 * Cardinality({c \in Cells(watermark.h, watermark.w) :
                         Visible(watermark.px[c][4])})
        >= 3 * watermark.h * watermark.w

\* p is a candidate of the window that is scored, and every other scored
\* candidate of the window has a strictly larger average difference.
StrictlyBest(p) ==
    /\ p \in Window
    /\ IsScored(image, watermark, p[1], p[2])
    /\ \A q \in Window \ {p} :
          IsScored(image, watermark, q[1], q[2]) =>
             RGt(AvgDiff(image, watermark, q[1], q[2]),
                 AvgDiff(image, watermark, p[1], p[2]))

\* C8: on the exhaustive path, when a watermark with at least 30% visible pixels
\* was composited at a position of the search window and no other position
\* scores equal or better, find_wm returns exactly that position.
C8_FindsPastedWatermark ==
    (/\ pc = "found"
     /\ ~use_gpu
     /\ paste # None
     /\ ThirtyPercentVisible
     /\ StrictlyBest(paste)) => found = paste

\* A scan that returned the position of a partly transparent watermark
\* composited away from the origin, with other candidates scored as well.
C8_Witness ==
    /\ pc = "found"
    /\ ~use_gpu
    /\ paste # None
    /\ paste # <<0, 0>>
    /\ ThirtyPercentVisible
    /\ StrictlyBest(paste)
    /\ \E c \in Cells(watermark.h, watermark.w) : watermark.px[c][4] < 255
    /\ \E q \in Window \ {paste} : IsScored(image, watermark, q[1], q[2])
    /\ found = paste

\* The watermark pixels that are visible and inside the image when the
\* watermark sits at (cx, cy).
VisibleInside(cx, cy) ==
    {c \in Cells(watermark.h, watermark.w) :
        /\ Visible(watermark.px[c][4])
        /\ 0 <= cy + c[1] /\ cy + c[1] < image.h
        /\ 0 <= cx + c[2] /\ cx + c[2] < image.w}

\* C9: a candidate is scored, and so can be the best one, only if the watermark
\* pixels both inside the image and visible are at least 30% of the watermark's
\* full footprint.
C9_ScoredOnlyIfThirtyPercent ==
    (pc \in {"scan", "found"} /\ IsFinite(min_diff)) =>
        10 * Cardinality(VisibleInside(best_x, best_y))
            >= 3 * watermark.h * watermark.w

\* The OpenCL backend is unavailable, or the attempt failed: the backend raised,
\* or the watermark does not fit into the clipped search region.
GpuUnavailableOrFailed ==
    \/ ~haveOpenCL
    \/ gpu_raises
    \/ MatchOffsets(image, watermark, radio, center_x, center_y) = {}

\* C10: when the accelerated backend is unavailable or the accelerated attempt
\* fails, find_wm returns exactly what the exhaustive scan returns.
C10_GpuFallback ==
    (pc = "found" /\ use_gpu /\ GpuUnavailableOrFailed) =>
        found = FindWmCpu(image, watermark, radio, center_x, center_y)

\* A call with the backend available whose attempt failed and whose scan
\* returned a position other than the initial one.
C10_Witness ==
    /\ pc = "found"
    /\ use_gpu
    /\ haveOpenCL
    /\ gpu_raises
    /\ found # None
    /\ found # <<0, 0>>
    /\ found = FindWmCpu(image, watermark, radio, center_x, center_y)


\* The window of the search: center - radio <= position < center + radio on
\* both axes, the centre defaulting to (width // 2, height // 2).
SearchWindow ==
    LET cx == IF center_x = None THEN image.w \div 2 ELSE center_x[1]
        cy == IF center_y = None THEN image.h \div 2 ELSE center_y[1]
    IN  {p \in ((cx - radio - 1) .. (cx + radio + 1)) \X ((cy - radio - 1) .. (cy + radio + 1)) :
            /\ cx - radio <= p[1] /\ p[1] < cx + radio
            /\ cy - radio <= p[2] /\ p[2] < cy + radio}

\* The positions the accelerated path chooses among: the cells of the result
\* of matchTemplate, in image coordinates.
GpuCandidates ==
    {<<o[2], o[1]>> : o \in MatchOffsets(image, watermark, radio, center_x, center_y)}

\* C11: when the accelerated path answers, the positions it chose among are
\* exactly the positions of the search window, those where the watermark lies
\* partly outside the image or extends past the window included.
C11_GpuSameCandidates ==
    (pc = "found" /\ GpuAnswers) => GpuCandidates = SearchWindow

\* The exhaustive scan has ended (its loops are over or it has returned).
ScanEnded ==
    \/ pc = "scan" /\ scan = 4 * radio * radio
    \/ pc = "found" /\ ~GpuAnswers

\* C12: the exhaustive scan examines exactly the positions of the search
\* window, and a position it returns other than (0, 0) lies in the window.
C12_ScanWindow ==
    /\ pc = "scan" => examined \subseteq SearchWindow
    /\ ScanEnded => examined = SearchWindow
    /\ (pc = "found" /\ ~GpuAnswers) => (found = <<0, 0>> \/ found \in SearchWindow)

\* A scan around a supplied centre, with the other centre defaulted, that
\* returned a position other than (0, 0) after going through the whole window.
C12_Witness ==
    /\ pc = "found"
    /\ ~GpuAnswers
    /\ center_x # None
    /\ center_y = None
    /\ radio = Radio
    /\ examined = SearchWindow
    /\ found # <<0, 0>>
    /\ found \in SearchWindow

\* The minimum-visibility constraint: the visible watermark pixels inside the
\* image are at least 30% of the watermark's footprint.
MeetsMinimumVisibility(p) ==
    10 * Cardinality(VisibleInside(p[1], p[2])) >= 3 * watermark.h * watermark.w

\* C13: when no candidate of the window satisfies the minimum-visibility
\* constraint, the exhaustive path returns the sentinel (0, 0).
C13_Sentinel ==
    (/\ pc = "found"
     /\ ~GpuAnswers
     /\ \A p \in SearchWindow : ~MeetsMinimumVisibility(p)) => found = <<0, 0>>


(***************************************************************************)
(* Claims about apply_jpeg_noise_filter.                                   *)
(***************************************************************************)
\* The patch given to the filter and the patch it returned, cell by cell.
PatchCells ==
    LET o == Overlap(image, watermark, x, y)
    IN  Cells(o.y_end_img - o.y_start_img, o.x_end_img - o.x_start_img)

PatchIn ==
    LET o == Overlap(image, watermark, x, y)
    IN  Eager([c \in PatchCells |->
                 image.px[<<o.y_start_img + c[1], o.x_start_img + c[2]>>]])

PatchOut ==
    LET o == Overlap(image, watermark, x, y)
    IN  Eager([c \in PatchCells |->
                 result.px[<<o.y_start_img + c[1], o.x_start_img + c[2]>>]])

\* The cells of the patch inside the watermark's visible footprint.
InFootprint(c) == AboveThreshold(FilterAlpha[c])

\* C14: every pixel of the patch outside the watermark's visible footprint is
\* bit-identical before and after apply_jpeg_noise_filter, for every strength
\* and edge_threshold.
C14_OutsideFootprintIdentical ==
    pc = "filtered" =>
        \A c \in PatchCells : ~InFootprint(c) => PatchOut[c] = PatchIn[c]

\* The edge magnitude of cell c above edge_threshold, both on the patch given
\* to the filter and on the colour-blended patch surface_blur measures.
IsEdge(c) ==
    LET o == Overlap(image, watermark, x, y)
        h == o.y_end_img - o.y_start_img
        w == o.x_end_img - o.x_start_img
        mask == Eager([d \in PatchCells |-> InFootprint(d)])
    IN  /\ EdgeGray(PatchIn, h, w)[c] > filter_threshold
        /\ EdgeGray(ResultWithColor(PatchIn, h, w, filter_strength, mask), h, w)[c]
              > filter_threshold

\* C15: apply_jpeg_noise_filter leaves bit-identical every pixel classified as
\* an edge, inside the watermark's visible footprint or not.
C15_EdgesIdentical ==
    pc = "filtered" =>
        \A c \in PatchCells : IsEdge(c) => PatchOut[c] = PatchIn[c]

\* The value channel of a pixel.
ValueOf(p) == BGR2HSV(p)[3]

\* C16: the value channel of every pixel of the filter's output equals the
\* value channel of the pixel given to it.
C16_ValuePreserved ==
    pc = "filtered" =>
        \A c \in PatchCells : ValueOf(PatchOut[c]) = ValueOf(PatchIn[c])


(***************************************************************************)
(* Claims about align_watermark.                                           *)
(***************************************************************************)
ValidSides ==
    /\ align_args.side_x \in {"left", "center", "right"}
    /\ align_args.side_y \in {"top", "center", "bottom"}

\* The x the claim gives for the arguments a.
ExpectedX(a) ==
    CASE a.side_x = "left" -> a.offset_x
      [] a.side_x = "center" -> (a.w_img - a.w_wm) \div 2 + a.offset_x
      [] a.side_x = "right" -> a.w_img - a.w_wm - a.offset_x

ExpectedY(a) ==
    CASE a.side_y = "top" -> a.offset_y
      [] a.side_y = "center" -> (a.h_img - a.h_wm) \div 2 + a.offset_y
      [] a.side_y = "bottom" -> a.h_img - a.h_wm - a.offset_y

\* C17: for the three sides of each axis align_watermark returns exactly
\* offset, (image - watermark) // 2 + offset and image - watermark - offset,
\* never clamped, and a repeated call with the same inputs returns the same.
C17_AlignExact ==
    (calls >= 1 /\ ValidSides) =>
        /\ aligned.raised = ""
        /\ aligned.x = ExpectedX(align_args)
        /\ aligned.y = ExpectedY(align_args)
        /\ (calls = 2 /\ width_delta = 0) => aligned = prev_aligned

\* A repeated call that returned twice the same position left of the image
\* and below it.
C17_Witness ==
    /\ calls = 2
    /\ width_delta = 0
    /\ ValidSides
    /\ aligned.raised = ""
    /\ aligned.x < 0
    /\ aligned.y >= align_args.h_img
    /\ aligned = prev_aligned

\* C18: with side_x = 'right' and everything else fixed, changing the image
\* width by d changes the x returned by exactly d.
C18_RightShiftsWithWidth ==
    (calls = 2 /\ width_delta # 0 /\ ValidSides /\ align_args.side_x = "right") =>
        /\ aligned.raised = ""
        /\ prev_aligned.raised = ""
        /\ aligned.x = prev_aligned.x + width_delta
        /\ aligned.y = prev_aligned.y

\* Two calls on the right side with a negative offset and a narrower image.
C18_Witness ==
    /\ calls = 2
    /\ width_delta < 0
    /\ ValidSides
    /\ align_args.side_x = "right"
    /\ align_args.offset_x < 0
    /\ aligned.x = prev_aligned.x + width_delta

\* C19: a call with a side outside the enumeration, the defaults included,
\* fails with an InvalidInput error and returns no coordinates.
C19_InvalidSideRejected ==
    (calls >= 1 /\ ~ValidSides) => aligned.raised = "InvalidInput"


(***************************************************************************)
(* Claims about the channel counts of remove_watermark's arrays.           *)
(***************************************************************************)
\* C20: remove_watermark called with an image that does not have 3 channels
\* or a watermark that does not have 4 signals InvalidInput at every position,
\* those without overlap included, and returns no image.
C20_ChannelCountsRejected ==
    (pc = "done" /\ (image_channels # 3 \/ watermark_channels # 4)) =>
        /\ raised = "InvalidInput"
        /\ result = NoGrid


RowMajorBefore(p, q) == p[2] < q[2] \/ (p[2] = q[2] /\ p[1] < q[1])

\* The scored candidates among those examined so far.
ScoredSoFar == {p \in examined : IsScored(image, watermark, p[1], p[2])}

\* C22: the scan visits the candidates row by row, y ascending and x ascending
\* within a row, and keeps as best the first visited among the candidates of
\* minimal score: a later candidate replaces it only with a strictly lower
\* score.
C22_ScanOrderFirstWins ==
    pc = "scan" =>
        /\ Cardinality(examined) = scan
        /\ \A p \in examined : \A q \in SearchWindow :
              RowMajorBefore(q, p) => q \in examined
        /\ IF ScoredSoFar = {} THEN min_diff = <<1, 0>>
           ELSE /\ <<best_x, best_y>> \in ScoredSoFar
                /\ min_diff = AvgDiff(image, watermark, best_x, best_y)
                /\ \A q \in ScoredSoFar :
                      /\ ~RGt(min_diff, AvgDiff(image, watermark, q[1], q[2]))
                      /\ AvgDiff(image, watermark, q[1], q[2]) = min_diff =>
                            ~RowMajorBefore(q, <<best_x, best_y>>)

\* A finished scan in which a candidate of a later row has the same minimal
\* score as the best one.
C22_Witness ==
    /\ pc = "scan"
    /\ scan = 4 * radio * radio
    /\ \E q \in ScoredSoFar :
          /\ q[2] > best_y
          /\ AvgDiff(image, watermark, q[1], q[2]) = min_diff


(***************************************************************************)
(* The smoothing of nearly opaque pixels in remove_watermark.              *)
(***************************************************************************)
\* alpha[i, j], and channel c of pixel (i, j) of the region after the
\* unblending alone (the pixel of the image when alpha is at or below
\* transparency_threshold).
RegionAlpha(i, j) ==
    AdjustedAlpha(WmTranslated(watermark, x, y), Overlap(image, watermark, x, y),
                  alpha_adjust, i, j)

OwnUnblended(i, j, c) ==
    LET o == Overlap(image, watermark, x, y)
        img == image.px[<<o.y_start_img + i, o.x_start_img + j>>][c]
        wmc == WmTranslated(watermark, x, y).px[<<o.y_start_wm + i,
                                                  o.x_start_wm + j>>][c]
    IN  IF RGt(RegionAlpha(i, j), FromInt(transparency_threshold))
        THEN Unblend(RegionAlpha(i, j), FromInt(img), FromInt(wmc))
        ELSE FromInt(img)

\* C23: a pixel of the region whose adjusted alpha exceeds opaque_threshold and
\* that is not in the first column holds, when the loop ends,
\* factor * (processed value of its left neighbour) + (1 - factor) * (its own
\* unblended value), factor = (alpha - opaque_threshold) / (255 -
\* opaque_threshold); every other pixel holds its own unblended value.
C23_SmoothingFormula ==
    (pc = "done" /\ roi # <<>>) =>
        \A i \in DOMAIN roi : \A j \in DOMAIN roi[i] : \A c \in 1 .. 3 :
            LET alpha_val == RegionAlpha(i, j)
                factor == RDiv(RSub(alpha_val, FromInt(240)), FromInt(15))
            IN  IF RGt(alpha_val, FromInt(240)) /\ j > 0
                THEN roi[i][j][c] =
                         RAdd(RMul(factor, roi[i][j - 1][c]),
                              RMul(RSub(FromInt(1), factor), OwnUnblended(i, j, c)))
                ELSE roi[i][j][c] = OwnUnblended(i, j, c)

\* A removal with a pixel of alpha between opaque_threshold and 255 in a later
\* column of the region, whose value the smoothing moved away from its own
\* unblended value, next to a pixel of alpha opaque_threshold that kept its own.
C23_Witness ==
    /\ pc = "done"
    /\ roi # <<>>
    /\ \E i \in DOMAIN roi : \E j \in DOMAIN roi[i] : \E c \in 1 .. 3 :
          /\ j > 0
          /\ RGt(RegionAlpha(i, j), FromInt(240))
          /\ RGt(FromInt(255), RegionAlpha(i, j))
          /\ IsFinite(roi[i][j - 1][c])
          /\ roi[i][j][c] # OwnUnblended(i, j, c)
    /\ \E i \in DOMAIN roi : \E j \in DOMAIN roi[i] :
          /\ j > 0
          /\ RegionAlpha(i, j) = FromInt(240)


(***************************************************************************)
(* The split of a position into its integer base and its fraction.         *)
(***************************************************************************)
\* 0 <= f < 1 for a fraction f.
InUnitInterval(f) == f[1] \in {0, 1} /\ f[2] >= 0

\* n + f is the position p.
SumsTo(n, f, p) == <<2 * n + f[1], f[2]>> = p

IsInteger(p) == p[2] = 0 /\ p[1] % 2 = 0

\* C24: for every position, negative ones included, each coordinate is split
\* into the integer floor(x) and a fraction in [0, 1) that add up to the
\* coordinate; the watermark is resampled by linear interpolation only when a
\* fraction is non-zero, and used unchanged at integer positions.
C24_FloorAndFraction ==
    pc = "done" =>
        /\ InUnitInterval(x_sub) /\ SumsTo(x_int, x_sub, pos_x)
        /\ InUnitInterval(y_sub) /\ SumsTo(y_int, y_sub, pos_y)
        /\ resampled => (~IsInteger(pos_x) \/ ~IsInteger(pos_y))
        /\ (IsInteger(pos_x) /\ IsInteger(pos_y)) => translated = watermark
        /\ resampled => translated = WarpAffine(watermark, x_sub[1], y_sub[1])

\* The same for the positions that are whole numbers of half pixels.
C24_HalfPixelPositions ==
    (pc = "done" /\ IsHalves(pos_x) /\ IsHalves(pos_y)) => C24_FloorAndFraction

\* A position whose x is a negative float under 2^-54 in magnitude leaves the
\* last column of the watermark's box as it was, where the position with x = 0
\* unblends it.
C24_LastColumnLeft ==
    /\ pc = "done"
    /\ image.h = ImgH /\ image.w = ImgW
    /\ watermark.h = WmH /\ watermark.w = WmW
    /\ pos_x = <<0, -1>>
    /\ pos_y = <<0, 0>>
    /\ x_int = -1
    /\ x_sub = <<2, 0>>
    /\ \E row \in 0 .. WmH - 1 :
          /\ result.px[<<row, WmW - 1>>] = image.px[<<row, WmW - 1>>]
          /\ Unblended(image, watermark, 0, 0, alpha_adjust, nan_cast).px[<<row, WmW - 1>>]
                # image.px[<<row, WmW - 1>>]


(***************************************************************************)
(* The pairing of image pixels with watermark pixels under clipping.       *)
(***************************************************************************)
\* The columns and rows of the image under the watermark's box.
RegionCols == Max(0, x_int) .. Min(image.w, x_int + watermark.w) - 1
RegionRows == Max(0, y_int) .. Min(image.h, y_int + watermark.h) - 1

\* Channel c of the image pixel (X, Y) unblended with the pixel
\* (X - floor(x), Y - floor(y)) of the translated watermark.
PairedValue(X, Y, c) ==
    LET wmp == translated.px[<<Y - y_int, X - x_int>>]
        alpha_val == Clip(RMul(FromInt(wmp[4]), alpha_adjust))
    IN  IF RGt(alpha_val, FromInt(transparency_threshold))
        THEN Unblend(alpha_val, FromInt(image.px[<<Y, X>>][c]), FromInt(wmp[c]))
        ELSE FromInt(image.px[<<Y, X>>][c])

PairedAlpha(X, Y) ==
    Clip(RMul(FromInt(translated.px[<<Y - y_int, X - x_int>>][4]), alpha_adjust))

\* C25: whatever edges of the image clip the watermark, the crop of the
\* watermark has the size of the image region, its indices lie inside the
\* watermark, and the image pixel (X, Y) of the region is processed with the
\* watermark pixel (X - floor(x), Y - floor(y)).
C25_CropPairing ==
    (pc = "done" /\ roi # <<>>) =>
        LET o == Overlap(image, watermark, 2 * x_int, 2 * y_int)
        IN  /\ o.x_end_wm - o.x_start_wm = o.x_end_img - o.x_start_img
            /\ o.y_end_wm - o.y_start_wm = o.y_end_img - o.y_start_img
            /\ 0 <= o.x_start_wm /\ o.x_end_wm <= watermark.w
            /\ 0 <= o.y_start_wm /\ o.y_end_wm <= watermark.h
            /\ o.x_start_img .. o.x_end_img - 1 = RegionCols
            /\ o.y_start_img .. o.y_end_img - 1 = RegionRows
            /\ DOMAIN roi = 0 .. Cardinality(RegionRows) - 1
            /\ \A Y \in RegionRows : \A X \in RegionCols :
                  /\ o.x_start_wm + (X - o.x_start_img) = X - x_int
                  /\ o.y_start_wm + (Y - o.y_start_img) = Y - y_int
                  /\ X - x_int \in 0 .. watermark.w - 1
                  /\ Y - y_int \in 0 .. watermark.h - 1
                  /\ (X = Max(0, x_int)
                        \/ ~RGt(PairedAlpha(X, Y), FromInt(opaque_threshold))) =>
                        \A c \in 1 .. 3 :
                           roi[Y - Max(0, y_int)][X - Max(0, x_int)][c]
                               = PairedValue(X, Y, c)

\* A watermark taller than the image, clipped at the top, the bottom and the
\* left at once, with a pixel the unblending changed.
C25_Witness ==
    /\ pc = "done"
    /\ roi # <<>>
    /\ watermark.h > image.h
    /\ y_int < 0
    /\ y_int + watermark.h > image.h
    /\ x_int < 0
    /\ \E Y \in RegionRows : \E X \in RegionCols : \E c \in 1 .. 3 :
          /\ IsFinite(PairedValue(X, Y, c))
          /\ PairedValue(X, Y, c) # FromInt(image.px[<<Y, X>>][c])
          /\ roi[Y - Max(0, y_int)][X - Max(0, x_int)][c] = PairedValue(X, Y, c)

ExpectedPreview(v) ==
    PreviewRemove(v.base_image_for_preview[1],
                  v.watermark_files[v.current_event_watermark_index[1] + 1],
                  v.current_event_position[1], v.alpha_value)

\* The picture on display stays the same and the review goes on.
SamePicture ==
    /\ viewer'.current_index = viewer.current_index
    /\ ~viewer'.user_approved

\* Starting a preview, changing alpha and _revert_preview leave the working
\* image unchanged and write nothing to the output folder, and _accept_preview
\* sets the working image to the preview computed from the image as it was
\* when the preview started, at the found position, with the latest alpha.
C27_PreviewFrame ==
    [][/\ viewer'.op \in {"_remove_watermark_preview", "_on_alpha_changed",
                          "_revert_preview"}
            => /\ viewer'.working_image = viewer.working_image
               /\ viewer'.saved = viewer.saved
       /\ (viewer'.op = "_accept_preview"
             /\ viewer'.working_image # viewer.working_image)
            => /\ viewer.is_preview_active
               /\ viewer'.working_image = <<ExpectedPreview(viewer)>>]_vars

\* C27: the working image of the current picture is changed only by
\* _accept_preview, which sets it to the preview computed from the image as it
\* was when the preview started, at the found position and with the most
\* recently chosen alpha; starting a preview, changing alpha and
\* _revert_preview leave it unchanged and write nothing to the output folder.
C27_OnlyAcceptChangesWorkingImage ==
    [][/\ (SamePicture /\ viewer'.working_image # viewer.working_image)
            => /\ viewer'.op = "_accept_preview"
               /\ viewer.is_preview_active
               /\ viewer'.working_image = <<ExpectedPreview(viewer)>>
       /\ viewer'.op \in {"_remove_watermark_preview", "_on_alpha_changed",
                          "_revert_preview"}
            => /\ viewer'.working_image = viewer.working_image
               /\ viewer'.saved = viewer.saved]_vars

\* The first picture is on display with no working image, after a removal
\* was accepted on it.
C27_WorkingImageDropped ==
    /\ viewer.op = "_previous_image"
    /\ viewer.current_index = 0
    /\ viewer.working_image = None
    /\ viewer.saved[1] # None
    /\ viewer.saved[1] # <<viewer.image_files[1].data>>

\* C28: in every reachable state where no preview is active, the watermark
\* selector and the next/previous buttons are not left disabled by an earlier
\* preview: every way of ending a preview (accept, revert, switching manual
\* mode off, moving to another image) re-enables the controls that starting
\* the preview disabled.
C28_ControlsRestored ==
    ~viewer.is_preview_active => viewer.disabled_by_preview = {}

\* A preview ended by _accept_preview or _revert_preview leaves the three
\* controls enabled.
C28_AcceptAndRevertRestore ==
    (/\ viewer.op \in {"_accept_preview", "_revert_preview"}
     /\ ~viewer.ignored
     /\ ~viewer.is_preview_active)
        => /\ viewer.disabled_by_preview = {}
           /\ viewer.next_btn /\ viewer.prev_btn /\ viewer.watermark_combo

\* The viewer has moved to another picture after manual mode was switched off
\* during a preview, and the watermark selector is still disabled.
C28_SelectorLeftDisabled ==
    /\ viewer.op = "_next_image"
    /\ ~viewer.user_approved
    /\ ~viewer.is_preview_active
    /\ ~viewer.manual_mode_enabled
    /\ ~viewer.watermark_combo
    /\ "watermark_combo" \in viewer.disabled_by_preview

\* current_index stays within 0..len(image_files)-1, and _next_image on the
\* last picture finishes the review instead of moving the index.
C29_IndexInRange ==
    /\ [](viewer.current_index \in 0 .. Len(viewer.image_files) - 1)
    /\ [][(/\ viewer'.op = "_next_image"
           /\ viewer.current_index = Len(viewer.image_files) - 1)
            => /\ viewer'.user_approved
               /\ viewer'.current_index = viewer.current_index]_vars

\* With an output folder set, _next_image records the picture that was
\* current when OpenCV can read it and write it under its suffix.
C29_ReadablePicturesRecorded ==
    [][(/\ viewer'.op = "_next_image"
        /\ viewer.output_folder
        /\ CurrentFile(viewer).decodable
        /\ CurrentFile(viewer).encodable)
         => viewer.current_index \in viewer'.processed_images]_vars

\* C29: with an output folder set, after every call of _next_image the
\* picture that was current is recorded in processed_images (it was processed
\* before, or it is saved unchanged now); current_index always stays within
\* 0..len(image_files)-1, and _next_image on the last picture finishes the
\* review instead of moving the index.
C29_NextImageRecords ==
    /\ [](viewer.current_index \in 0 .. Len(viewer.image_files) - 1)
    /\ [][/\ (viewer'.op = "_next_image" /\ viewer.output_folder)
                => viewer.current_index \in viewer'.processed_images
          /\ (/\ viewer'.op = "_next_image"
              /\ viewer.current_index = Len(viewer.image_files) - 1)
                => /\ viewer'.user_approved
                   /\ viewer'.current_index = viewer.current_index]_vars

\* The review was finished with an output folder and a picture that is
\* neither recorded in processed_images nor written to the folder.
C29_PictureLeftOut ==
    /\ viewer.user_approved
    /\ viewer.output_folder
    /\ \E i \in 0 .. Len(viewer.image_files) - 1 :
          /\ i \notin viewer.processed_images
          /\ viewer.saved[i + 1] = None

\* Every key other than the one of the last call has the value it had before.
OtherKeysUnchanged ==
    \A k \in JsonKeys \ {json.key} : Get(json.file, k) = Get(json.before, k)

\* What set, delete and read promise, after the last call.
StoreLaws ==
    /\ json.op = "set" =>
          /\ Get(json.file, json.key) = json.value
          /\ OtherKeysUnchanged
    /\ json.op = "delete" =>
          /\ ~Exists(json.file, json.key)
          /\ OtherKeysUnchanged
    /\ (json.op = "read" /\ json.file.kind \in {"missing", "empty"}) =>
          json.dict = <<>>

\* The laws hold after every call other than a set in a directory that does
\* not exist or of a value that json stores as another one or not at all.
C30_LawsForJsonValues ==
    (json.op = "set" => json.dir /\ json.value[1][1] \in {"str", "dict", "list"})
        => StoreLaws

\* C30: after any sequence of operations on one file, set(k, v) makes get(k)
\* return v and leaves every other key's value unchanged, delete(k) makes
\* exists(k) false and leaves every other key unchanged, and read on a missing
\* or empty file returns the empty dictionary.
C30_SetGetDeleteLaws == StoreLaws

\* A set that raised has left the file without another key it held before.
C30_OtherKeyLost ==
    /\ json.op = "set"
    /\ json.raised = "TypeError"
    /\ \E k \in JsonKeys \ {json.key} :
          /\ Get(json.before, k) # None
          /\ Get(json.file, k) = None

=============================================================================
